---- MODULE Spec2Model ----
(***************************************************************************)
(* pttkey: push-to-talk microphone control.  Model of the reconciliation   *)
(* loop of src/src/main.rs (main, handle_events, refresh_active_state,     *)
(* set_active_state, reopen_device_loop, open_device) together with the    *)
(* external volume-control command (wpctl) and the input device as the     *)
(* environment.                                                            *)
(***************************************************************************)
EXTENDS Naturals, Integers, Sequences, FiniteSets, TLC

(***************************************************************************)
(* Bounds of the model.                                                    *)
(***************************************************************************)
\* largest number of events one fetch_events call delivers
MaxBatch == 2
\* largest number of failed reopen attempts in one recovery
MaxRetries == 2
\* largest number of play requests sent to the audio worker
MaxRequests == 3
\* largest number of input devices evdev::enumerate() yields
MaxDevices == 2
\* largest number of events of an input batch before its synchronization report
MaxForward == 3
\* largest number of consecutive apply_on / apply_off calls on the microphone
MaxCalls == 2
\* largest number of default-sound threads that have been spawned and not yet run
MaxThreads == 1
\* largest number of --key options on a command line
MaxKeyOptions == 2
\* largest number of send_samples calls one thread makes
MaxSends == 2

(***************************************************************************)
(* Keys, events and configurations                                         *)
(***************************************************************************)
\* three of the KeyCode values; KEY_X is never part of a chord below
KeyCodes == {"KEY_A", "KEY_B", "KEY_X"}

\* evdev key event values: 0 release, 1 press, 2 autorepeat
KeyValues == {0, 1, 2}

\* what destructure() yields: a key event, or some other event (sync, relative motion)
KeyEvents == [kind : {"Key"}, key : KeyCodes, value : KeyValues]
OtherEvents == {[kind |-> "Other", key |-> "none", value |-> 0]}
Events == KeyEvents \cup OtherEvents

DevicePath == "/dev/input/event7"
NoPath == "None"

\* Config values parse_args can return (the list/print/dry-run flags are false)
Configs ==
    {c \in
    [keys : {<<"KEY_A">>, <<"KEY_A", "KEY_B">>},
     device_path : {DevicePath, NoPath},
     mode : {"Volume", "Mute"},
     on_level : {10},
     off_level : {0},
     sounds : BOOLEAN,
     sound_on : {NoPath},
     sound_off : {NoPath, "off.ogg"},
     startup_state : {"Muted", "Unmuted"}] :
     c.sound_off # NoPath => c.sounds}

(***************************************************************************)
(* The external volume-control command                                     *)
(***************************************************************************)
\* what running `wpctl ...` can do: exit 0, exit non-zero, or fail to launch
Outcomes == {"ok", "nonzero", "nolaunch"}

\* format!("{level}") for the levels used here (levels are kept in tenths)
FormatLevel(level) ==
    CASE level = 10 -> "1"
      [] level = 0 -> "0"
      [] OTHER -> "?"

\* Command::status(): Err only if the process could not be spawned
CommandStatus(outcome) ==
    IF outcome = "nolaunch" THEN "Err" ELSE "Ok"

NoCall ==
    [site |-> "none", on |-> FALSE, cmd |-> "none", arg |-> "none",
     outcome |-> "none", result |-> "none"]

\* set_volume: `.status().context("wpctl failed")?; Ok(())` -- the exit status is dropped
set_volume(level, outcome) ==
    [cmd |-> "set-volume", arg |-> FormatLevel(level), outcome |-> outcome,
     result |-> CommandStatus(outcome)]

\* variant: the mute flag is flipped instead of set
set_mute_toggle(muted, outcome) ==
    [cmd |-> "set-mute", arg |-> "toggle", outcome |-> outcome,
     result |-> CommandStatus(outcome)]

\* set_mute: `.status().context("wpctl failed")?; Ok(())` -- the exit status is dropped
set_mute(muted, outcome) ==
    [cmd |-> "set-mute", arg |-> IF muted THEN "1" ELSE "0", outcome |-> outcome,
     result |-> CommandStatus(outcome)]

apply_on(cfg, outcome) ==
    IF cfg.mode = "Volume" THEN set_volume(cfg.on_level, outcome)
    ELSE set_mute(FALSE, outcome)

\* variant: the off action sets the on level
apply_off_on_level(cfg, outcome) ==
    IF cfg.mode = "Volume" THEN set_volume(cfg.on_level, outcome)
    ELSE set_mute(TRUE, outcome)

apply_off(cfg, outcome) ==
    IF cfg.mode = "Volume" THEN set_volume(cfg.off_level, outcome)
    ELSE set_mute(TRUE, outcome)

apply_startup_state(cfg, outcome) ==
    IF cfg.startup_state = "Muted" THEN apply_off(cfg, outcome)
    ELSE apply_on(cfg, outcome)

\* the invocation record of one apply call made at `site` of main.rs
CallAt(site, on, c) ==
    [site |-> site, on |-> on, cmd |-> c.cmd, arg |-> c.arg,
     outcome |-> c.outcome, result |-> c.result]

\* the action the microphone last took: a command that ran and exited 0 took effect
Applied(prev, c) ==
    IF c.outcome = "ok" THEN (IF c.on THEN "on" ELSE "off") ELSE prev

(***************************************************************************)
(* Transition sounds (main.rs version: one detached thread per request)    *)
(***************************************************************************)
NoSound == [on |-> FALSE, player |-> "none", path |-> NoPath]

play_transition_sound(cfg, on) ==
    IF ~cfg.sounds THEN NoSound
    ELSE IF on
         THEN IF cfg.sound_on # NoPath
              THEN [on |-> TRUE, player |-> "file", path |-> cfg.sound_on]
              ELSE [on |-> TRUE, player |-> "default", path |-> NoPath]
         ELSE IF cfg.sound_off # NoPath
              THEN [on |-> FALSE, player |-> "file", path |-> cfg.sound_off]
              ELSE [on |-> FALSE, player |-> "default", path |-> NoPath]

(***************************************************************************)
(* Chord tracking and activation                                           *)
(***************************************************************************)
\* variant: the sound is requested and *active written before the result of
\* the command is examined
set_active_state_sound_first(cfg, act, on, outcome) ==
    LET c == IF on THEN apply_on(cfg, outcome) ELSE apply_off(cfg, outcome)
    IN [result |-> c.result, active |-> on,
        call |-> CallAt("transition", on, c),
        sound |-> play_transition_sound(cfg, on)]

\* set_active_state: apply first (`?` returns on Err), then sound, then *active = on
set_active_state(cfg, act, on, outcome) ==
    LET c == IF on THEN apply_on(cfg, outcome) ELSE apply_off(cfg, outcome)
    IN IF c.result = "Err"
       THEN [result |-> "Err", active |-> act,
             call |-> CallAt("transition", on, c), sound |-> NoSound]
       ELSE [result |-> "Ok", active |-> on,
             call |-> CallAt("transition", on, c),
             sound |-> play_transition_sound(cfg, on)]

\* variant: a key-repeat (value 2) counts as a press
update_pressed_keys_repeat(prs, key, value) ==
    CASE value \in {1, 2} -> prs \cup {key}
      [] value = 0 -> prs \ {key}
      [] OTHER -> prs

update_pressed_keys(prs, key, value) ==
    CASE value = 1 -> prs \cup {key}
      [] value = 0 -> prs \ {key}
      [] OTHER -> prs

\* variant: some chord key pressed is enough
all_pressed_any(cfg, prs) ==
    \E i \in DOMAIN cfg.keys : cfg.keys[i] \in prs

\* config.keys.iter().all(|k| pressed.contains(k))
all_pressed(cfg, prs) ==
    \A i \in DOMAIN cfg.keys : cfg.keys[i] \in prs

\* variant: applies on every key event, changed or not
refresh_active_state_always(cfg, prs, act, outcome) ==
    set_active_state(cfg, act, all_pressed(cfg, prs), outcome)

\* variant: the command is repeated for every key event while the chord is held
refresh_active_state_while_held(cfg, prs, act, outcome) ==
    IF all_pressed(cfg, prs) # act \/ all_pressed(cfg, prs)
    THEN set_active_state(cfg, act, all_pressed(cfg, prs), outcome)
    ELSE [result |-> "Ok", active |-> act, call |-> NoCall, sound |-> NoSound]

\* variant: a sound is requested for every key event, changed or not
refresh_active_state_sound_each_event(cfg, prs, act, outcome) ==
    IF all_pressed(cfg, prs) # act
    THEN set_active_state(cfg, act, all_pressed(cfg, prs), outcome)
    ELSE [result |-> "Ok", active |-> act, call |-> NoCall,
          sound |-> play_transition_sound(cfg, act)]

\* refresh_active_state: apply only when the chord state differs from *active
refresh_active_state(cfg, prs, act, outcome) ==
    IF all_pressed(cfg, prs) # act
    THEN set_active_state(cfg, act, all_pressed(cfg, prs), outcome)
    ELSE [result |-> "Ok", active |-> act, call |-> NoCall, sound |-> NoSound]

\* the body of `for ev in events` in handle_events, for one event
\* variant: an event that is not a key event empties the pressed set and
\* reconciles
handle_event_other_clears(cfg, prs, act, ev, outcome) ==
    LET p == IF ev.kind = "Key" THEN update_pressed_keys(prs, ev.key, ev.value) ELSE {}
        r == refresh_active_state(cfg, p, act, outcome)
    IN [result |-> r.result, pressed |-> p, active |-> r.active,
        call |-> r.call, sound |-> r.sound]

handle_event(cfg, prs, act, ev, outcome) ==
    IF ev.kind = "Key"
    THEN LET p == update_pressed_keys(prs, ev.key, ev.value)
             r == refresh_active_state(cfg, p, act, outcome)
         IN [result |-> r.result, pressed |-> p, active |-> r.active,
             call |-> r.call, sound |-> r.sound]
    ELSE [result |-> "Ok", pressed |-> prs, active |-> act,
          call |-> NoCall, sound |-> NoSound]

(***************************************************************************)
(* Opening the input device                                                *)
(***************************************************************************)
\* what an open attempt can meet: a usable device, none, one the OS denies
\* access to, one lacking a chord key, one reporting no key capabilities
DevStates == {"present", "absent", "denied", "nokey", "nocaps"}

\* error messages, as sequences of text pieces
MsgPermission == <<"Permission denied", "(os error 13)">>
MsgNoEnt == <<"No such file or directory", "(os error 2)">>
MsgOpenContext(path) == <<"Failed to open device", path>>
MsgNoKey(path) == <<"Device", path, "does not support key">>
MsgNoDevice == <<"No input device found that supports all configured keys">>

\* an anyhow::Error is a chain of messages, outermost context first;
\* to_string() (Display without `#`) renders the outermost message only
to_string(err) == err[1]

\* str::contains for a piece of text
Contains(msg, piece) == \E i \in DOMAIN msg : msg[i] = piece

OpenOk == [ok |-> TRUE, err |-> <<>>]
OpenErr(chain) == [ok |-> FALSE, err |-> chain]

\* Option<T> as a set of at most one value
None == {}
Some(x) == {x}

\* the name the synthetic passthrough device starts with
PassthroughPrefix == "pttkey passthrough"

\* device names, as sequences of text pieces
DeviceNames == {<<"Keyboard">>, <<PassthroughPrefix, "Keyboard">>}

\* what Device::supported_keys() can report
KeyCapabilities ==
    {None, Some({"KEY_X"}), Some({"KEY_A"}), Some({"KEY_A", "KEY_B"}), Some(KeyCodes)}

\* an opened evdev Device
Devices == [name : DeviceNames, supported_keys : KeyCapabilities]

NoDevice == [name |-> <<>>, supported_keys |-> None]

\* what is behind an explicit device path
Nodes ==
    {[status |-> "ok", device |-> d] : d \in Devices}
        \cup {[status |-> st, device |-> NoDevice] : st \in {"absent", "denied"}}

\* the probe's filter: supported_keys().map(|k| keys.iter().all(..)).unwrap_or(false)
\* variant: one chord key is enough
supports_any(d, keys) ==
    \E k \in d.supported_keys : \E i \in DOMAIN keys : keys[i] \in k

supports(d, keys) ==
    \E k \in d.supported_keys : \A i \in DOMAIN keys : keys[i] \in k

\* devices.remove(0)
\* variant: the last of the matching devices
remove_last(devs) == devs[Len(devs)]

remove_first(devs) == devs[1]

Opened(d) == [ok |-> TRUE, err |-> <<>>, device |-> d]
Failed(chain) == [ok |-> FALSE, err |-> chain, device |-> NoDevice]

\* open_device on the node behind the explicit path and the sequence of
\* devices evdev::enumerate() yields (only the devices it could open)
open_device_on(cfg, node, enumerated) ==
    IF cfg.device_path # NoPath
    THEN CASE node.status = "absent" ->
                Failed(<<MsgOpenContext(cfg.device_path), MsgNoEnt>>)
           [] node.status = "denied" ->
                Failed(<<MsgOpenContext(cfg.device_path), MsgPermission>>)
           [] OTHER ->
                IF \E k \in node.device.supported_keys :
                      \E i \in DOMAIN cfg.keys : cfg.keys[i] \notin k
                THEN Failed(<<MsgNoKey(cfg.device_path)>>)
                ELSE Opened(node.device)
    ELSE LET devices == SelectSeq(enumerated, LAMBDA d : supports(d, cfg.keys))
         IN IF devices = <<>>
            THEN Failed(<<MsgNoDevice>>)
            ELSE Opened(remove_first(devices))

\* the node and the enumeration that stand for a device state of the loop's
\* environment
NodeOf(dev) ==
    CASE dev \in {"absent", "denied"} -> [status |-> dev, device |-> NoDevice]
      [] dev = "nokey" ->
           [status |-> "ok",
            device |-> [name |-> <<"Keyboard">>, supported_keys |-> Some({"KEY_X"})]]
      [] dev = "nocaps" ->
           [status |-> "ok",
            device |-> [name |-> <<"Keyboard">>, supported_keys |-> None]]
      [] OTHER ->
           [status |-> "ok",
            device |-> [name |-> <<"Keyboard">>, supported_keys |-> Some(KeyCodes)]]

EnumeratedOf(dev) ==
    IF NodeOf(dev).status = "ok" THEN <<NodeOf(dev).device>> ELSE <<>>

\* open_device: explicit path (Device::open with context, then the key check)
\* or probing; evdev::enumerate() yields only the devices it could open
open_device(cfg, dev) ==
    LET r == open_device_on(cfg, NodeOf(dev), EnumeratedOf(dev))
    IN IF r.ok THEN OpenOk ELSE OpenErr(r.err)

is_permission_denied(err) == Contains(to_string(err), "Permission denied")

\* open_device_with_hint: same result; `hint` tells whether the hint was printed
open_device_with_hint(cfg, dev) ==
    LET r == open_device(cfg, dev)
    IN [ok |-> r.ok, err |-> r.err,
        hint |-> (~r.ok /\ is_permission_denied(r.err))]

\* one turn of the loop of reopen_device_loop
reopen_attempt(cfg, dev) ==
    LET r == open_device_with_hint(cfg, dev)
    IN IF r.ok THEN "reopened"
       ELSE IF is_permission_denied(r.err) THEN "fatal"
       ELSE "retry"

\* variant: the pressed set survives the recovery
device_lost_keeps_keys(cfg, prs, act, outcome) ==
    LET c == apply_off(cfg, outcome)
    IN [result |-> c.result, pressed |-> prs,
        active |-> IF c.result = "Err" THEN act ELSE FALSE,
        call |-> CallAt("device_lost", FALSE, c)]

\* main.rs 779-782: the forced off on a fetch error, then the reset of the state
device_lost(cfg, prs, act, outcome) ==
    LET c == apply_off(cfg, outcome)
    IN IF c.result = "Err"
       THEN [result |-> "Err", pressed |-> prs, active |-> act,
             call |-> CallAt("device_lost", FALSE, c)]
       ELSE [result |-> "Ok", pressed |-> {}, active |-> FALSE,
             call |-> CallAt("device_lost", FALSE, c)]

\* io::Error kinds fetch_events can return; handle_events turns every Err into Some(err)
FetchErrors == {"ENODEV", "WouldBlock"}

(***************************************************************************)
(* State                                                                   *)
(***************************************************************************)
VARIABLES
    config,       \* the Config parse_args returned
    pc,           \* position in main: "start", "open", "loop" (the while test),
                  \* "fetch" (inside fetch_events), "events", "reopen", "exited"
    running,      \* the AtomicBool the Ctrl-C handler clears
    pressed,      \* HashSet<KeyCode> of main
    active,       \* `active` of main
    fetched,      \* number of events of the current batch already handled
    lastFetch,    \* result of the latest fetch_events: "none", "Ok" or an error kind
    slept,        \* seconds slept so far by the running reopen_device_loop
    openFailure,  \* what made the latest open attempt fail ("none": it succeeded)
    lastApplied,  \* the action the microphone last took: "none", "on", "off"
    call,         \* the wpctl invocation made by the latest step (NoCall if none)
    sound,        \* the sound requested by the latest step (NoSound if none)
    exitVia,      \* how main returned: "none" while it runs
    chord,        \* update_pressed_keys and refresh_active_state run on their own
    audio,        \* the audio worker of audio.rs and its request channel
    probe,        \* open_device run on its own on a node and an enumeration
    forwarder,    \* the passthrough forwarder and the synthetic device
    mic,          \* apply_on and apply_off run on their own on a microphone
    cache,        \* SOUND_CACHE of audio.rs and play_transition_sound reading it
    cli,          \* parse_args run on its own on a command line
    reload,       \* a new configuration snapshot taken up by the loop
    fallback,     \* the default-sound fallback chain of one detached thread
    sender,       \* the lazily started audio worker under concurrent first use
    persist       \* a configuration, its persisted form and the configuration read back

\* the variables of main's loop
loopVars == <<config, pc, running, pressed, active, fetched, lastFetch, slept,
              openFailure, lastApplied, call, sound, exitVia>>

\* the variables of the components modelled on their own
extVars == <<chord, audio, probe, forwarder, mic, cache, cli, reload, fallback, sender, persist>>

vars == <<loopVars, extVars>>

\* a component that is not running in the specification at hand
Idle == [phase |-> "idle"]

ExtIdle ==
    /\ chord = Idle
    /\ audio = Idle
    /\ probe = Idle
    /\ forwarder = Idle
    /\ mic = Idle
    /\ cache = Idle
    /\ cli = Idle
    /\ reload = Idle
    /\ fallback = Idle
    /\ sender = Idle
    /\ persist = Idle

\* main before its first step, under one fixed configuration
LoopIdle ==
    /\ config = [keys |-> <<"KEY_A">>, device_path |-> NoPath, mode |-> "Mute",
                 on_level |-> 10, off_level |-> 0, sounds |-> FALSE,
                 sound_on |-> NoPath, sound_off |-> NoPath,
                 startup_state |-> "Muted"]
    /\ pc = "start"
    /\ running = TRUE
    /\ pressed = {}
    /\ active = FALSE
    /\ fetched = 0
    /\ lastFetch = "none"
    /\ slept = 0
    /\ openFailure = "none"
    /\ lastApplied = "none"
    /\ call = NoCall
    /\ sound = NoSound
    /\ exitVia = "none"

Init ==
    /\ config \in Configs
    /\ pc = "start"
    /\ running = TRUE
    /\ pressed = {}
    /\ active = FALSE
    /\ fetched = 0
    /\ lastFetch = "none"
    /\ slept = 0
    /\ openFailure = "none"
    /\ lastApplied = "none"
    /\ call = NoCall
    /\ sound = NoSound
    /\ exitVia = "none"
    /\ ExtIdle

\* main returns: nothing after this point runs
Exit(via) ==
    /\ pc' = "exited"
    /\ exitVia' = via

(***************************************************************************)
(* Actions                                                                 *)
(***************************************************************************)
\* main.rs 755: apply_startup_state(&config)?
Startup ==
    /\ pc = "start"
    /\ \E o \in Outcomes :
         LET c == CallAt("startup", config.startup_state = "Unmuted",
                         apply_startup_state(config, o))
         IN /\ call' = c
            /\ lastApplied' = Applied(lastApplied, c)
            /\ IF c.result = "Err"
               THEN Exit("startup")
               ELSE pc' = "open" /\ exitVia' = exitVia
    /\ sound' = NoSound
    /\ UNCHANGED <<config, running, pressed, active, fetched, lastFetch,
                   slept, openFailure>>
    /\ UNCHANGED extVars

\* main.rs 770-775: open_device_with_hint(&config)?, then pressed and active are created
OpenDevice ==
    /\ pc = "open"
    /\ \E dev \in DevStates :
         IF open_device_with_hint(config, dev).ok
         THEN pc' = "loop" /\ exitVia' = exitVia /\ openFailure' = "none"
         ELSE Exit("open") /\ openFailure' = dev
    /\ pressed' = {}
    /\ active' = FALSE
    /\ call' = NoCall
    /\ sound' = NoSound
    /\ UNCHANGED <<config, running, fetched, lastFetch, slept, lastApplied>>
    /\ UNCHANGED extVars

\* the Ctrl-C handler (installed at main.rs 765, after the startup state): r.store(false)
CtrlC ==
    /\ pc \in {"open", "loop", "fetch", "events", "reopen"}
    /\ running
    /\ running' = FALSE
    /\ UNCHANGED <<config, pc, pressed, active, fetched, lastFetch, slept,
                   openFailure, lastApplied, call, sound, exitVia>>
    /\ UNCHANGED extVars

\* main.rs 777-778: `while running.load(..)` finds the flag set, handle_events
\* calls device.fetch_events() (the device is used as Device::open returned it)
CheckRunning ==
    /\ pc = "loop"
    /\ running
    /\ pc' = "fetch"
    /\ call' = NoCall
    /\ sound' = NoSound
    /\ UNCHANGED <<config, running, pressed, active, fetched, lastFetch, slept,
                   openFailure, lastApplied, exitVia>>
    /\ UNCHANGED extVars

\* handle_events 684-685: the device delivers events, fetch_events returns Ok(events)
FetchEvents ==
    /\ pc = "fetch"
    /\ pc' = "events"
    /\ fetched' = 0
    /\ lastFetch' = "Ok"
    /\ call' = NoCall
    /\ sound' = NoSound
    /\ UNCHANGED <<config, running, pressed, active, slept, openFailure,
                   lastApplied, exitVia>>
    /\ UNCHANGED extVars

\* handle_events 686-690: the next event of the batch
NextEvent ==
    /\ pc = "events"
    /\ fetched < MaxBatch
    /\ \E ev \in Events, o \in Outcomes :
         LET r == handle_event(config, pressed, active, ev, o)
         IN /\ pressed' = r.pressed
            /\ active' = r.active
            /\ call' = r.call
            /\ sound' = r.sound
            /\ lastApplied' = Applied(lastApplied, r.call)
            /\ IF r.result = "Err"
               THEN Exit("events")
               ELSE pc' = pc /\ exitVia' = exitVia
    /\ fetched' = fetched + 1
    /\ UNCHANGED <<config, running, lastFetch, slept, openFailure>>
    /\ UNCHANGED extVars

\* handle_events 692-696: the batch is exhausted, Ok(None) goes back to main
EndOfBatch ==
    /\ pc = "events"
    /\ pc' = "loop"
    /\ call' = NoCall
    /\ sound' = NoSound
    /\ UNCHANGED <<config, running, pressed, active, fetched, lastFetch, slept,
                   openFailure, lastApplied, exitVia>>
    /\ UNCHANGED extVars

\* handle_events 694 and main.rs 778-783: fetch_events returns Err
FetchError ==
    /\ pc = "fetch"
    /\ \E kind \in FetchErrors, o \in Outcomes :
         LET r == device_lost(config, pressed, active, o)
         IN /\ lastFetch' = kind
            /\ pressed' = r.pressed
            /\ active' = r.active
            /\ call' = r.call
            /\ lastApplied' = Applied(lastApplied, r.call)
            /\ IF r.result = "Err"
               THEN Exit("device_lost")
               ELSE pc' = "reopen" /\ exitVia' = exitVia
    /\ slept' = 0
    /\ sound' = NoSound
    /\ UNCHANGED <<config, running, fetched, openFailure>>
    /\ UNCHANGED extVars

\* reopen_device_loop 716-727: one attempt
ReopenAttempt ==
    /\ pc = "reopen"
    /\ \E dev \in DevStates :
         LET r == reopen_attempt(config, dev)
         IN CASE r = "reopened" ->
                   /\ pc' = "loop"
                   /\ openFailure' = "none"
                   /\ slept' = 0
                   /\ exitVia' = exitVia
              [] r = "fatal" ->
                   /\ Exit("reopen")
                   /\ openFailure' = dev
                   /\ slept' = slept
              [] OTHER ->
                   /\ slept < MaxRetries
                   /\ openFailure' = dev
                   /\ slept' = slept + 1
                   /\ UNCHANGED <<pc, exitVia>>
    /\ call' = NoCall
    /\ sound' = NoSound
    /\ UNCHANGED <<config, running, pressed, active, fetched, lastFetch, lastApplied>>
    /\ UNCHANGED extVars

\* main.rs 777 and 787-791: the flag is clear, the loop ends, final apply_off(&config)?
Terminate ==
    /\ pc = "loop"
    /\ ~running
    /\ \E o \in Outcomes :
         LET c == CallAt("exit", FALSE, apply_off(config, o))
         IN /\ call' = c
            /\ lastApplied' = Applied(lastApplied, c)
    /\ Exit("flag")
    /\ sound' = NoSound
    /\ UNCHANGED <<config, running, pressed, active, fetched, lastFetch,
                   slept, openFailure>>
    /\ UNCHANGED extVars

Next ==
    \/ Startup
    \/ OpenDevice
    \/ CtrlC
    \/ CheckRunning
    \/ FetchEvents
    \/ NextEvent
    \/ EndOfBatch
    \/ FetchError
    \/ ReopenAttempt
    \/ Terminate

Spec == Init /\ [][Next]_vars

\* the steps main takes by itself; when the device delivers events or an error
\* (FetchEvents, FetchError) and when the signal arrives (CtrlC) is not the
\* program's to decide
ProgramStep ==
    \/ Startup
    \/ OpenDevice
    \/ CheckRunning
    \/ NextEvent
    \/ EndOfBatch
    \/ ReopenAttempt
    \/ Terminate

SpecFair == Spec /\ WF_vars(ProgramStep)

(***************************************************************************)
(* Properties                                                              *)
(***************************************************************************)
\* the set of keys of the configured chord
Chord == {config.keys[i] : i \in DOMAIN config.keys}

\* the wpctl command line that turns the microphone on resp. off under `config`
OnCommand(c) ==
    IF config.mode = "Mute" THEN c.cmd = "set-mute" /\ c.arg = "0"
    ELSE c.cmd = "set-volume" /\ c.arg = "1"
OffCommand(c) ==
    IF config.mode = "Mute" THEN c.cmd = "set-mute" /\ c.arg = "1"
    ELSE c.cmd = "set-volume" /\ c.arg = "0"

\* C1: while the loop processes key events (no device error in between), the
\* activation state is true exactly when every key of the chord is in the
\* pressed set: a proper subset never activates, extra non-chord keys do not
\* matter, releasing one chord key deactivates.
C1_ActiveIffChordHeld ==
    pc \in {"loop", "fetch", "events"} => (active <=> Chord \subseteq pressed)

\* C1 witness: a two-key chord fully held together with a non-chord key, active
C1_Witness ==
    /\ pc = "events"
    /\ Len(config.keys) = 2
    /\ pressed = {"KEY_A", "KEY_B", "KEY_X"}
    /\ active
    /\ call.site = "transition"

\* C2: from the moment the startup state has been applied, active is true iff
\* the most recent action successfully applied to the microphone was "on"
\* (for startup Muted and Unmuted, after transitions and after recovery).
C2_ActiveIsLastApplied ==
    pc \in {"open", "loop", "fetch", "events", "reopen"}
        => (active <=> lastApplied = "on")

\* C3: on every path out of the reconciliation loop (termination flag,
\* permission-denied out of the reopen loop, apply error out of event handling
\* or recovery) apply_off is invoked after the last iteration, before exit.
C3_FinalOffOnEveryLoopExit ==
    (pc = "exited" /\ exitVia \in {"flag", "reopen", "events", "device_lost"})
        => (call.site = "exit" /\ OffCommand(call))

\* C4: a fetch error makes the loop invoke apply_off before the first reopen
\* attempt; reopen attempts repeat, each failed one followed by a one-second
\* sleep, until one succeeds; throughout, and when event processing resumes,
\* the pressed set is empty and activation is false.
C4_DeviceLostRecovery ==
    [][ /\ (pc' = "reopen" /\ pc # "reopen")
            => /\ pc = "fetch"
               /\ call'.site = "device_lost" /\ OffCommand(call')
               /\ slept' = 0
        /\ pc' = "reopen" => (pressed' = {} /\ ~active')
        /\ pc = "reopen"
            => /\ pc' \in {"reopen", "loop", "exited"}
               /\ (pc' = "reopen" /\ running' = running)
                    => (slept' = slept + 1 /\ openFailure' # "none")
               /\ pc' = "loop"
                    => (openFailure' = "none" /\ pressed' = {} /\ ~active')
      ]_vars

\* C4 witness: a device-lost error was met, the forced off took effect, a
\* reopen succeeded and the loop is about to fetch again with nothing pressed
C4_Witness ==
    /\ pc = "loop"
    /\ lastFetch = "ENODEV"
    /\ openFailure = "none"
    /\ pressed = {}
    /\ ~active
    /\ lastApplied = "off"
    /\ config.startup_state = "Unmuted"

\* C5: a reopen attempt that fails because the OS denies access ends
\* reopen_device_loop with that error: the loop is not still retrying after it,
\* for an explicit device path and for auto-probing.
C5_PermissionDeniedEndsReopen ==
    openFailure = "denied" => pc = "exited"

\* C6: a fetch that returns WouldBlock is an empty poll: no apply_off, the
\* pressed set and activation are kept, the reopen loop is not entered.
C6_WouldBlockIsEmptyPoll ==
    lastFetch = "WouldBlock" => (pc # "reopen" /\ call.site # "device_lost")

\* C7: a device-lost read error never terminates the process: whatever the
\* outcome of the forced off, the loop goes on to the reopen attempts.
C7_DeviceLostNeverExits ==
    call.site = "device_lost" => pc = "reopen"

\* C8: a failure of the volume/mute mechanism while applying a routine chord
\* transition does not end the reconciliation loop.
C8_TransitionFailureKeepsLoop ==
    (call.site = "transition" /\ call.outcome \in {"nonzero", "nolaunch"})
        => pc = "events"

\* C9: set_volume and set_mute return an error whenever the command fails
\* (cannot be launched, or exits non-zero); so a transition whose command exits
\* non-zero leaves the activation state as it was and requests no sound.
C9_CommandFailureIsError ==
    /\ call.outcome \in {"nonzero", "nolaunch"} => call.result = "Err"
    /\ (call.site = "transition" /\ call.outcome = "nonzero")
         => (active = ~call.on /\ sound = NoSound)

\* the configuration of C10
C10_Config ==
    /\ config.keys = <<"KEY_A">>
    /\ config.mode = "Mute"
    /\ config.startup_state = "Muted"

\* C10: chord {A}, mode Mute, startup Muted.  Startup invokes mute=true once
\* and activation starts false; a press of A from the inactive state invokes
\* mute=false once and (the invocation returning Ok) sets activation true and
\* requests one "on" sound iff sounds are enabled; a release from the active
\* state invokes mute=true once and sets activation false; every other event
\* invokes nothing.
C10_EndToEndMute ==
    [][ C10_Config =>
        /\ pc = "start"
             => (call'.site = "startup" /\ call'.cmd = "set-mute" /\ call'.arg = "1"
                 /\ ~active')
        /\ (pc = "open" /\ pc' # "open") => (call' = NoCall /\ ~active')
        /\ (pc = "events" /\ fetched' = fetched + 1) =>
             CASE "KEY_A" \notin pressed /\ "KEY_A" \in pressed' ->
                    /\ ~active
                    /\ call'.site = "transition"
                    /\ call'.cmd = "set-mute" /\ call'.arg = "0"
                    /\ IF call'.result = "Ok"
                       THEN /\ active'
                            /\ (sound' # NoSound) = config.sounds
                            /\ sound' # NoSound => sound'.on
                       ELSE ~active' /\ sound' = NoSound /\ pc' = "exited"
               [] "KEY_A" \in pressed /\ "KEY_A" \notin pressed' ->
                    /\ active
                    /\ call'.site = "transition"
                    /\ call'.cmd = "set-mute" /\ call'.arg = "1"
                    /\ IF call'.result = "Ok"
                       THEN /\ ~active'
                            /\ (sound' # NoSound) = config.sounds
                            /\ sound' # NoSound => ~sound'.on
                       ELSE active' /\ sound' = NoSound /\ pc' = "exited"
               [] OTHER ->
                    call' = NoCall /\ sound' = NoSound /\ active' = active
      ]_vars

\* C10 witness: under that configuration A was pressed, mute=false was invoked
\* and returned Ok, activation is true and the "on" sound was requested
C10_Witness ==
    /\ C10_Config
    /\ config.sounds
    /\ pc = "events"
    /\ call.site = "transition" /\ call.cmd = "set-mute" /\ call.arg = "0"
    /\ call.result = "Ok"
    /\ active
    /\ sound.on /\ sound.player = "default"

\* C15: when opening the device at startup fails and the process ends,
\* apply_off is invoked on the way out, so that the microphone is not left
\* "on" whatever the startup state: either the exit step invokes the off
\* command or the last command that took effect is not the on command.
C15_OffBeforeStartupOpenExit ==
    (pc = "exited" /\ exitVia = "open")
        => \/ (call.site = "exit" /\ OffCommand(call))
           \/ lastApplied # "on"

\* C16: once the termination flag is set while the loop runs on an open
\* device, the loop reaches its next check of the flag and the process exits
\* through the final apply_off, with no further input event needed.
C16_TerminationNeedsNoEvent ==
    (~running /\ pc \in {"loop", "fetch", "events"}) ~> (pc = "exited")

\* C33: a transition sound is requested only by a step of event
\* reconciliation that changed the activation state; the startup state, the
\* forced "off" after a device error and the final "off" run the command and
\* request no sound, so there is never more than one request per change
\* (sound is the request of the latest step of main; the signal handler,
\* the only step that writes running, leaves it as it is)
C33_SoundOnlyOnChordChange ==
    [][/\ (sound' # NoSound /\ running' = running) =>
             /\ config.sounds
             /\ call'.site = "transition"
             /\ call'.result = "Ok"
             /\ active' # active
             /\ sound'.on = active'
       /\ call'.site \in {"startup", "device_lost", "exit"} => sound' = NoSound
    ]_vars

\* the forced "off" after a device error, with sounds enabled and the chord
\* held when the device was lost: the command ran, no sound was requested
C33_Witness ==
    /\ config.sounds
    /\ call.site = "device_lost"
    /\ call.result = "Ok"
    /\ lastApplied = "off"
    /\ pc = "reopen"
    /\ sound = NoSound

(***************************************************************************)
(* The chord tracker on its own: update_pressed_keys and                   *)
(* refresh_active_state applied to the Config of config.rs, which carries  *)
(* `reverse`.                                                              *)
(***************************************************************************)
\* Config values of config.rs: those of main.rs plus the reverse flag
ReverseConfigs ==
    [keys : {<<"KEY_A">>, <<"KEY_A", "KEY_B">>},
     device_path : {NoPath},
     mode : {"Volume", "Mute"},
     on_level : {10},
     off_level : {0},
     sounds : BOOLEAN,
     sound_on : {NoPath},
     sound_off : {NoPath},
     startup_state : {"Muted"},
     reverse : BOOLEAN]

\* no 0/1 event for any key since the session was opened
NoKeyEvents == [k \in KeyCodes |-> -1]

\* the value of the latest press or release event of each key
LastValues(last, ev) ==
    IF ev.kind = "Key" /\ ev.value \in {0, 1}
    THEN [last EXCEPT ![ev.key] = ev.value]
    ELSE last

\* main.rs 774-775: pressed and active as main creates them
ChordInit ==
    /\ chord \in [phase : {"run"}, cfg : ReverseConfigs, pressed : {{}},
                  active : {FALSE}, call : {NoCall}, sound : {NoSound},
                  ev : OtherEvents, n : {0}, batch : {<<>>}, last : {NoKeyEvents}]
    /\ audio = Idle
    /\ probe = Idle
    /\ forwarder = Idle
    /\ mic = Idle
    /\ cache = Idle
    /\ cli = Idle
    /\ reload = Idle
    /\ fallback = Idle
    /\ sender = Idle
    /\ persist = Idle
    /\ LoopIdle

\* handle_events 686-690 for one event of the fetched batch; n counts the
\* events of the batch handled so far, batch lists the directions of the
\* transitions made for them, last the latest 0/1 value of each key
ChordEvent ==
    /\ chord.phase = "run"
    /\ chord.n < MaxBatch
    /\ \E ev \in Events, o \in Outcomes :
         LET r == handle_event(chord.cfg, chord.pressed, chord.active, ev, o)
         IN chord' = [chord EXCEPT
                        !.phase = IF r.result = "Err" THEN "exited" ELSE "run",
                        !.pressed = r.pressed,
                        !.active = r.active,
                        !.call = r.call,
                        !.sound = r.sound,
                        !.ev = ev,
                        !.n = @ + 1,
                        !.batch = IF r.call # NoCall THEN Append(@, r.call.on) ELSE @,
                        !.last = LastValues(@, ev)]
    /\ UNCHANGED <<loopVars, audio, probe, forwarder, mic, cache, cli, reload, fallback, sender, persist>>

\* handle_events 692-696 and main 777-778: the batch is exhausted, the next
\* fetch_events begins a new one
ChordBatchEnd ==
    /\ chord.phase = "run"
    /\ chord.n > 0
    /\ chord' = [chord EXCEPT !.n = 0, !.batch = <<>>, !.call = NoCall,
                              !.sound = NoSound, !.ev = CHOOSE e \in OtherEvents : TRUE]
    /\ UNCHANGED <<loopVars, audio, probe, forwarder, mic, cache, cli, reload, fallback, sender, persist>>

\* main 778-784: fetch_events fails, the forced off, the reset of pressed and
\* active, and the session is open again after reopen_device_loop
ChordReopen ==
    /\ chord.phase = "run"
    /\ chord.n = 0
    /\ \E o \in Outcomes :
         LET r == device_lost(chord.cfg, chord.pressed, chord.active, o)
         IN chord' = [chord EXCEPT
                        !.phase = IF r.result = "Err" THEN "exited" ELSE "run",
                        !.pressed = r.pressed,
                        !.active = r.active,
                        !.call = r.call,
                        !.last = IF r.result = "Err" THEN @ ELSE NoKeyEvents]
    /\ UNCHANGED <<loopVars, audio, probe, forwarder, mic, cache, cli, reload, fallback, sender, persist>>

ChordNext ==
    \/ ChordEvent
    \/ ChordBatchEnd
    \/ ChordReopen

SpecChord == ChordInit /\ [][ChordNext]_vars

\* C11: desired activation is (every chord key pressed) XOR reverse: with
\* reverse the loop applies "on" exactly while the chord is not fully pressed
\* and "off" while it is; without reverse the sense is the direct one.
C11_ReverseInverts ==
    (chord.phase = "run" /\ chord.call.site = "transition") =>
        LET held == \A i \in DOMAIN chord.cfg.keys :
                        chord.cfg.keys[i] \in chord.pressed
        IN chord.call.on = (IF chord.cfg.reverse THEN ~held ELSE held)

\* one event of the current batch has just been handled
EventHandled == chord'.n = chord.n + 1

\* C26: each event is reconciled before the next one is looked at; on a change
\* the command is run first, then the sound requested, then the activation
\* state written; when the command fails no sound is requested and the
\* activation state keeps its value; so a press and a release of the chord in
\* one batch give "on" then "off"
C26_ReconcileEachEvent ==
    [][EventHandled =>
        LET c == chord'.call
            changed == all_pressed(chord.cfg, chord'.pressed) # chord.active
        IN /\ chord'.pressed =
                 (IF chord'.ev.kind = "Key"
                  THEN update_pressed_keys(chord.pressed, chord'.ev.key, chord'.ev.value)
                  ELSE chord.pressed)
           /\ (chord'.ev.kind = "Key" /\ changed) <=> c # NoCall
           /\ c # NoCall =>
                 /\ c.on = ~chord.active
                 /\ chord'.batch = Append(chord.batch, c.on)
                 /\ c.result = "Err" =>
                       /\ chord'.sound = NoSound
                       /\ chord'.active = chord.active
                       /\ chord'.phase = "exited"
                 /\ c.result = "Ok" =>
                       /\ chord'.sound = play_transition_sound(chord.cfg, c.on)
                       /\ chord'.active = c.on
           /\ c = NoCall => chord'.batch = chord.batch
    ]_vars

\* a press and a release of the whole chord in one batch: "on" then "off",
\* each with its sound
C26_Witness ==
    /\ chord.phase = "run"
    /\ chord.cfg.sounds
    /\ chord.n = 2
    /\ chord.batch = <<TRUE, FALSE>>
    /\ chord.sound.player = "default"
    /\ ~chord.active

\* a command failed in the middle of a batch
C26_WitnessFailed ==
    /\ chord.phase = "exited"
    /\ chord.call.site = "transition"
    /\ chord.call.result = "Err"
    /\ chord.cfg.sounds

\* desired activation of section 4.1: the chord is held, inverted by reverse
Desired(cfg, prs) == all_pressed(cfg, prs) # cfg.reverse

\* C27: a key event that does not change the desired activation runs no
\* command and requests no sound; a command is run only on a change of the
\* desired state, once, and the activation state moves only then, to the
\* opposite value
C27_NoOpWithoutChange ==
    [][EventHandled =>
        LET same == Desired(chord.cfg, chord'.pressed) = Desired(chord.cfg, chord.pressed)
        IN /\ same => /\ chord'.call = NoCall
                      /\ chord'.sound = NoSound
                      /\ chord'.active = chord.active
           /\ chord'.call # NoCall => ~same
           /\ Len(chord'.batch) <= Len(chord.batch) + 1
           /\ chord'.active # chord.active =>
                 /\ ~same
                 /\ chord'.call.result = "Ok"
                 /\ chord'.active = ~chord.active
    ]_vars

\* a key-repeat of the chord key arrived while the chord was active
C27_Witness ==
    /\ chord.phase = "run"
    /\ chord.ev.kind = "Key"
    /\ chord.ev.value = 2
    /\ all_pressed(chord.cfg, chord.pressed)
    /\ chord.active
    /\ chord.call = NoCall
    /\ chord.n = 2

\* C28: the pressed set is the set of keys whose latest 0/1 event since the
\* session was opened or reopened was a press: value 1 inserts, value 0
\* removes, any other value changes nothing, a repeated press or a release
\* of a key that is not pressed changes nothing
C28_PressedIsLastPress ==
    chord.phase = "run" => chord.pressed = {k \in KeyCodes : chord.last[k] = 1}

\* a key-repeat of a key that was released before: it stays out of the set
C28_Witness ==
    /\ chord.phase = "run"
    /\ chord.ev.kind = "Key"
    /\ chord.ev.value = 2
    /\ chord.last[chord.ev.key] = 0
    /\ chord.ev.key \notin chord.pressed
    /\ chord.pressed # {}

\* C34: an event that is not a key event leaves the pressed set and the
\* activation state as they were, runs no command and requests no sound
C34_OtherEventsChangeNothing ==
    [][(EventHandled /\ chord'.ev.kind # "Key") =>
          /\ chord'.pressed = chord.pressed
          /\ chord'.active = chord.active
          /\ chord'.call = NoCall
          /\ chord'.sound = NoSound
          /\ chord'.last = chord.last
          /\ chord'.phase = "run"
    ]_vars

\* a non-key event arrived while the chord was held and active
C34_Witness ==
    /\ chord.phase = "run"
    /\ chord.ev.kind = "Other"
    /\ chord.n = 2
    /\ chord.active
    /\ chord.pressed # {}
    /\ chord.batch = <<TRUE>>

(***************************************************************************)
(* The audio worker (audio.rs): AUDIO_SENDER, the mpsc channel and the     *)
(* thread spawned by get_audio_sender                                      *)
(***************************************************************************)
RequestIds == 1 .. MaxRequests

\* the decoded sounds a PlayRequest can carry (SoundCache.on, SoundCache.off)
Samples == {"on", "off"}

\* worker position after sink.append(request.samples): sink.sleep_until_end()
\* variant: the worker goes on to the next request at once
after_append_no_wait == "idle"

after_append == "sleeping"

\* worker position after open_default_stream() failed: `continue`
\* variant: the worker thread ends
after_open_failure_stop == "stopped"

after_open_failure == "idle"

\* the request the worker takes from the channel: `for request in rx` is FIFO
next_request(queue) == Head(queue)

\* the channel without the request at position k
Without(queue, k) ==
    SubSeq(queue, 1, k - 1) \o SubSeq(queue, k + 1, Len(queue))

PositionOf(queue, r) == CHOOSE k \in DOMAIN queue : queue[k] = r

AudioInit ==
    /\ audio = [started |-> FALSE, queue |-> <<>>, pos |-> "idle", cur |-> 0,
                sent |-> 0, status |-> [i \in RequestIds |-> "unsent"],
                samples |-> [i \in RequestIds |-> "none"],
                from |-> [i \in RequestIds |-> 0], heard |-> <<>>,
                calls |-> 0, threads |-> {},
                streams |-> {}, sounding |-> {}]
    /\ chord = Idle
    /\ probe = Idle
    /\ forwarder = Idle
    /\ mic = Idle
    /\ cache = Idle
    /\ cli = Idle
    /\ reload = Idle
    /\ fallback = Idle
    /\ sender = Idle
    /\ persist = Idle
    /\ LoopIdle

\* send_samples 138-143: get_audio_sender (the first call creates the channel
\* and spawns the worker), then sender.send(PlayRequest); c is the call of
\* play_transition_sound the request comes from
send_samples(a, c, smp) ==
    LET id == a.sent + 1
    IN [a EXCEPT !.started = TRUE,
                 !.sent = id,
                 !.queue = Append(@, id),
                 !.samples[id] = smp,
                 !.from[id] = c,
                 !.status[id] = "queued"]

\* the ways play_transition_sound 267-309 gets a sound played when sounds are
\* enabled: the configured cache slot holds samples; a File choice misses the
\* slot and play_sound_file decodes and sends; a Default choice misses the slot
\* and play_default_sound spawns a detached thread
SoundPaths == {"cached", "file", "default_thread"}

\* play_transition_sound 267-309, called by the event loop
PlayTransitionSound ==
    /\ audio.calls < MaxRequests
    /\ \E smp \in Samples, path \in SoundPaths :
         LET c == audio.calls + 1
             a == [audio EXCEPT !.calls = c]
         IN audio' = IF path = "default_thread"
                     THEN [a EXCEPT !.threads = @ \cup {[call |-> c, samples |-> smp]}]
                     ELSE send_samples(a, c, smp)
    /\ UNCHANGED <<loopVars, chord, probe, forwarder, mic, cache, cli, reload, fallback, sender, persist>>

\* the thread of play_default_sound 233-249: try_play_embedded_sound sends the
\* embedded samples, or paplay / canberra play outside the channel
DefaultSoundThread ==
    /\ \E t \in audio.threads, embedded \in BOOLEAN :
         LET a == [audio EXCEPT !.threads = @ \ {t}]
         IN audio' = IF embedded THEN send_samples(a, t.call, t.samples) ELSE a
    /\ UNCHANGED <<loopVars, chord, probe, forwarder, mic, cache, cli, reload, fallback, sender, persist>>

\* get_audio_sender 30: `for request in rx` yields the next request
WorkerTake ==
    /\ audio.started
    /\ audio.pos = "idle"
    /\ audio.queue # <<>>
    /\ LET r == next_request(audio.queue)
       IN audio' = [audio EXCEPT !.queue = Without(@, PositionOf(@, r)),
                                 !.cur = r,
                                 !.pos = "opening",
                                 !.status[r] = "taken"]
    /\ UNCHANGED <<loopVars, chord, probe, forwarder, mic, cache, cli, reload, fallback, sender, persist>>

\* get_audio_sender 31-37: open_default_stream, then set_volume and append,
\* or `continue` when the stream cannot be opened
WorkerOpen ==
    /\ audio.pos = "opening"
    /\ \E ok \in BOOLEAN :
         IF ok
         THEN audio' = [audio EXCEPT !.streams = @ \cup {audio.cur},
                                     !.sounding = @ \cup {audio.cur},
                                     !.heard = Append(@, audio.from[audio.cur]),
                                     !.status[audio.cur] = "playing",
                                     !.pos = after_append]
         ELSE audio' = [audio EXCEPT !.status[audio.cur] = "skipped",
                                     !.cur = 0,
                                     !.pos = after_open_failure]
    /\ UNCHANGED <<loopVars, chord, probe, forwarder, mic, cache, cli, reload, fallback, sender, persist>>

\* the samples of a request have been played to their end
SoundEnds ==
    /\ \E id \in audio.sounding :
         audio' = [audio EXCEPT !.sounding = @ \ {id},
                                !.status[id] = "played"]
    /\ UNCHANGED <<loopVars, chord, probe, forwarder, mic, cache, cli, reload, fallback, sender, persist>>

\* get_audio_sender 38-39: sleep_until_end returns, sink and stream are dropped
WorkerWake ==
    /\ audio.pos = "sleeping"
    /\ audio.cur \notin audio.sounding
    /\ audio' = [audio EXCEPT !.streams = @ \ {audio.cur},
                              !.cur = 0,
                              !.pos = "idle"]
    /\ UNCHANGED <<loopVars, chord, probe, forwarder, mic, cache, cli, reload, fallback, sender, persist>>

AudioNext ==
    \/ PlayTransitionSound
    \/ DefaultSoundThread
    \/ WorkerTake
    \/ WorkerOpen
    \/ SoundEnds
    \/ WorkerWake

SpecAudio == AudioInit /\ [][AudioNext]_vars

\* the worker thread runs whenever it can, and a sound that plays ends
SpecAudioFair ==
    /\ SpecAudio
    /\ WF_vars(WorkerTake)
    /\ WF_vars(WorkerOpen)
    /\ WF_vars(SoundEnds)
    /\ WF_vars(WorkerWake)

C13_PlayedInCallOrder ==
    \A i, j \in DOMAIN audio.heard :
        i < j => audio.heard[i] < audio.heard[j]

\* C14: every request put on the channel is eventually played to its end or,
\* when its stream cannot be opened, skipped; a failed open does not stop the
\* worker, so later requests are handled and none is lost.
C14_EveryRequestHandled ==
    \A i \in RequestIds :
        (audio.status[i] = "queued") ~> (audio.status[i] \in {"played", "skipped"})

\* C14 witness: a request was handled after the one before it was skipped
C14_Witness ==
    /\ audio.status[1] = "skipped"
    /\ audio.status[2] = "played"

(***************************************************************************)
(* open_device on its own, applied to every node and enumeration           *)
(***************************************************************************)
\* the sequences of at most MaxDevices devices
Enumerations ==
    UNION {[1 .. n -> Devices] : n \in 0 .. MaxDevices}

OpenConfigs ==
    [keys : {<<"KEY_A">>, <<"KEY_A", "KEY_B">>}, device_path : {DevicePath, NoPath}]

OpenInit ==
    /\ probe \in [phase : {"ready"}, cfg : OpenConfigs, node : Nodes,
                  enumerated : Enumerations, result : {Failed(<<>>)}]
    /\ chord = Idle
    /\ audio = Idle
    /\ forwarder = Idle
    /\ mic = Idle
    /\ cache = Idle
    /\ cli = Idle
    /\ reload = Idle
    /\ fallback = Idle
    /\ sender = Idle
    /\ persist = Idle
    /\ LoopIdle

\* one call of open_device
OpenDeviceCall ==
    /\ probe.phase = "ready"
    /\ probe' = [probe EXCEPT
                    !.phase = "done",
                    !.result = open_device_on(probe.cfg, probe.node, probe.enumerated)]
    /\ UNCHANGED <<loopVars, chord, audio, forwarder, mic, cache, cli, reload, fallback, sender, persist>>

OpenNext == \/ OpenDeviceCall

SpecOpen == OpenInit /\ [][OpenNext]_vars

\* the device reports support for every key of the chord
HasAllKeys(d, keys) ==
    /\ d.supported_keys # None
    /\ \A k \in d.supported_keys : \A i \in DOMAIN keys : keys[i] \in k

\* C17: with an explicit device path open_device succeeds only if the device
\* behind the path reports support for every chord key (a device reporting no
\* key capabilities does not), and what it returns is that device and no
\* other.
C17_ExplicitPathNeedsAllKeys ==
    (probe.phase = "done" /\ probe.cfg.device_path # NoPath /\ probe.result.ok)
        => /\ probe.node.status = "ok"
           /\ probe.result.device = probe.node.device
           /\ HasAllKeys(probe.node.device, probe.cfg.keys)

\* C18: with no explicit path open_device returns the first enumerated device
\* that supports every chord key, and fails with the "no device found" error
\* exactly when no enumerated device supports them all.
C18_ProbeReturnsFirstMatch ==
    (probe.phase = "done" /\ probe.cfg.device_path = NoPath)
        => LET matching == {i \in DOMAIN probe.enumerated :
                               HasAllKeys(probe.enumerated[i], probe.cfg.keys)}
           IN IF matching = {}
              THEN /\ ~probe.result.ok
                   /\ probe.result.err = <<MsgNoDevice>>
              ELSE /\ probe.result.ok
                   /\ \E i \in matching :
                        /\ \A j \in matching : i <= j
                        /\ probe.result.device = probe.enumerated[i]

\* C18 witness: the first enumerated device lacks a chord key, the second one
\* supports the chord and is returned
C18_Witness ==
    /\ probe.phase = "done"
    /\ probe.cfg.device_path = NoPath
    /\ Len(probe.enumerated) = 2
    /\ ~HasAllKeys(probe.enumerated[1], probe.cfg.keys)
    /\ probe.enumerated[1] # probe.enumerated[2]
    /\ probe.result.ok
    /\ probe.result.device = probe.enumerated[2]

\* C19: the probe never returns a device whose name has the prefix of the
\* program's own synthetic passthrough device.
C19_ProbeSkipsOwnDevice ==
    (probe.phase = "done" /\ probe.cfg.device_path = NoPath /\ probe.result.ok)
        => probe.result.device.name[1] # PassthroughPrefix

(***************************************************************************)
(* The passthrough forwarder (spec 4.4): events are buffered per input     *)
(* batch and flushed to the synthetic device on a synchronization report   *)
(***************************************************************************)
SyncEvent == [kind |-> "Sync", key |-> "none", value |-> 0]

RawEvents == Events \cup {SyncEvent}

ForwardConfigs ==
    [keys : {<<"KEY_A">>, <<"KEY_A", "KEY_B">>}, suppress : BOOLEAN]

\* an event is kept from the buffer: a key event of a chord key while
\* suppression is enabled
\* variant: every key event is dropped while suppression is enabled
suppressed_every_key(cfg, ev) == cfg.suppress /\ ev.kind = "Key"

suppressed(cfg, ev) ==
    /\ cfg.suppress
    /\ ev.kind = "Key"
    /\ \E i \in DOMAIN cfg.keys : cfg.keys[i] = ev.key

\* one raw event through the forwarder: the buffer afterwards and what is
\* emitted to the synthetic device
forward_event(cfg, buffer, ev) ==
    IF ev = SyncEvent
    THEN [buffer |-> <<>>, emitted |-> Append(buffer, ev)]
    ELSE IF suppressed(cfg, ev)
         THEN [buffer |-> buffer, emitted |-> <<>>]
         ELSE [buffer |-> Append(buffer, ev), emitted |-> <<>>]

ForwardInit ==
    /\ forwarder \in [cfg : ForwardConfigs, buffer : {<<>>}, batch : {<<>>},
                      flushed : {FALSE}, emitted : {<<>>}]
    /\ chord = Idle
    /\ audio = Idle
    /\ probe = Idle
    /\ mic = Idle
    /\ cache = Idle
    /\ cli = Idle
    /\ reload = Idle
    /\ fallback = Idle
    /\ sender = Idle
    /\ persist = Idle
    /\ LoopIdle

\* the loop hands the next fetched event to the forwarder; batch is the input
\* batch so far, begun anew after a flush
ForwardEvent ==
    /\ \E ev \in RawEvents :
         LET before == IF forwarder.flushed THEN <<>> ELSE forwarder.batch
             r == forward_event(forwarder.cfg, forwarder.buffer, ev)
         IN /\ ev # SyncEvent => Len(before) < MaxForward
            /\ forwarder' = [forwarder EXCEPT !.buffer = r.buffer,
                                              !.batch = Append(before, ev),
                                              !.flushed = (ev = SyncEvent),
                                              !.emitted = r.emitted]
    /\ UNCHANGED <<loopVars, chord, audio, probe, mic, cache, cli, reload, fallback, sender, persist>>

ForwardNext == \/ ForwardEvent

SpecForward == ForwardInit /\ [][ForwardNext]_vars

\* C20: at the synchronization report that ends an input batch, what is
\* forwarded to the synthetic device is the batch without the key events of
\* chord keys, in the original order, when suppression is enabled, and the
\* whole batch unchanged and in order when it is disabled.
C20_ForwardedIsBatchMinusChordKeys ==
    forwarder.flushed
        => LET chordKeys == {forwarder.cfg.keys[i] : i \in DOMAIN forwarder.cfg.keys}
               Kept(e) == ~(forwarder.cfg.suppress /\ e.kind = "Key" /\ e.key \in chordKeys)
           IN forwarder.emitted = SelectSeq(forwarder.batch, Kept)

\* C20 witness: suppression enabled, chord {KEY_A}; the batch
\* <<KEY_A press, KEY_X press, sync>> is forwarded as <<KEY_X press, sync>>
C20_Witness ==
    /\ forwarder.flushed
    /\ forwarder.cfg = [keys |-> <<"KEY_A">>, suppress |-> TRUE]
    /\ forwarder.batch = <<[kind |-> "Key", key |-> "KEY_A", value |-> 1],
                           [kind |-> "Key", key |-> "KEY_X", value |-> 1],
                           SyncEvent>>
    /\ forwarder.emitted = <<[kind |-> "Key", key |-> "KEY_X", value |-> 1], SyncEvent>>

(***************************************************************************)
(* apply_on and apply_off on their own, with the default source that       *)
(* wpctl acts on                                                           *)
(***************************************************************************)
\* the state of @DEFAULT_SOURCE@: its volume (as wpctl prints it) and mute flag
MicStates == [volume : {"0", "0.5", "1"}, muted : BOOLEAN]

ApplyConfigs == [mode : {"Volume", "Mute"}, on_level : {10}, off_level : {0}]

\* what `wpctl set-volume @DEFAULT_SOURCE@ <arg>` and `wpctl set-mute
\* @DEFAULT_SOURCE@ <arg>` do to the source when they run and exit 0; a
\* command that fails or cannot be launched leaves the source as it is
wpctl(state, c) ==
    IF c.outcome # "ok" THEN state
    ELSE CASE c.cmd = "set-volume" -> [state EXCEPT !.volume = c.arg]
           [] c.cmd = "set-mute" /\ c.arg = "toggle" -> [state EXCEPT !.muted = ~@]
           [] c.cmd = "set-mute" -> [state EXCEPT !.muted = (c.arg = "1")]
           [] OTHER -> state

ApplyInit ==
    /\ mic \in [cfg : ApplyConfigs, state : MicStates, calls : {<<>>}]
    /\ chord = Idle
    /\ audio = Idle
    /\ probe = Idle
    /\ forwarder = Idle
    /\ cache = Idle
    /\ cli = Idle
    /\ reload = Idle
    /\ fallback = Idle
    /\ sender = Idle
    /\ persist = Idle
    /\ LoopIdle

\* one call of apply_on (on) or apply_off (~on)
ApplyCall ==
    /\ Len(mic.calls) < MaxCalls
    /\ \E on \in BOOLEAN, o \in Outcomes :
         LET c == IF on THEN apply_on(mic.cfg, o) ELSE apply_off(mic.cfg, o)
             after == wpctl(mic.state, c)
         IN mic' = [mic EXCEPT
                       !.state = after,
                       !.calls = Append(@, [on |-> on, cmd |-> c.cmd, arg |-> c.arg,
                                            outcome |-> o, result |-> c.result,
                                            before |-> mic.state, after |-> after])]
    /\ UNCHANGED <<loopVars, chord, audio, probe, forwarder, cache, cli, reload, fallback, sender, persist>>

ApplyNext == \/ ApplyCall

SpecApply == ApplyInit /\ [][ApplyNext]_vars

\* C22: apply_on and apply_off make one external call each: in mode Volume
\* the absolute level is set to on_level (on) or off_level (off) and the mute
\* flag is left alone; in mode Mute the mute flag is set to false (on) or true
\* (off) and the volume is left alone.
C22_OneCallPerModeAndDirection ==
    \A i \in DOMAIN mic.calls :
        LET c == mic.calls[i]
        IN IF mic.cfg.mode = "Volume"
           THEN /\ c.cmd = "set-volume"
                /\ c.arg = FormatLevel(IF c.on THEN mic.cfg.on_level ELSE mic.cfg.off_level)
                /\ c.after.muted = c.before.muted
                /\ c.outcome = "ok" => c.after.volume = c.arg
           ELSE /\ c.cmd = "set-mute"
                /\ c.arg = (IF c.on THEN "0" ELSE "1")
                /\ c.after.volume = c.before.volume
                /\ c.outcome = "ok" => c.after.muted = ~c.on

\* C22 witness: in mode Volume an off call took the source from "1" to "0"
C22_Witness ==
    /\ mic.cfg.mode = "Volume"
    /\ \E i \in DOMAIN mic.calls :
         /\ ~mic.calls[i].on
         /\ mic.calls[i].before.volume = "1"
         /\ mic.calls[i].after.volume = "0"

\* C23: apply_off is idempotent: of two consecutive apply_off calls that find
\* the command behaving the same way, the second leaves the source in the
\* state the first left it in, and returns no error if the first returned none.
C23_ApplyOffIdempotent ==
    \A i \in DOMAIN mic.calls :
        (/\ i + 1 \in DOMAIN mic.calls
         /\ ~mic.calls[i].on
         /\ ~mic.calls[i + 1].on
         /\ mic.calls[i].outcome = mic.calls[i + 1].outcome)
            => /\ mic.calls[i + 1].after = mic.calls[i].after
               /\ mic.calls[i].result = "Ok" => mic.calls[i + 1].result = "Ok"

\* C23 witness: two apply_off calls in mode Mute on an unmuted source, the
\* first of which muted it
C23_Witness ==
    /\ mic.cfg.mode = "Mute"
    /\ Len(mic.calls) = 2
    /\ ~mic.calls[1].on /\ ~mic.calls[2].on
    /\ ~mic.calls[1].before.muted
    /\ mic.calls[1].after.muted
    /\ mic.calls[2].after.muted

(***************************************************************************)
(* The sound cache (audio.rs): SOUND_CACHE, init_audio_cache and the       *)
(* play_transition_sound that reads it                                     *)
(***************************************************************************)
\* SoundChoice
SoundDefault == [kind |-> "Default", path |-> NoPath]
SoundDisabled == [kind |-> "Disabled", path |-> NoPath]
SoundFile(path) == [kind |-> "File", path |-> path]

SoundChoices == {SoundDefault, SoundDisabled, SoundFile("a.ogg")}

\* the fields of Config the audio functions read
AudioConfigs ==
    [sounds : BOOLEAN, sound_on : SoundChoices, sound_off : SoundChoices,
     sound_volume : {5, 10}]

\* decoded sample buffers: of the embedded wav of an edge, of a user file
Embedded(on) == [src |-> "embedded", name |-> IF on THEN "on.wav" ELSE "off.wav"]
Decoded(path) == [src |-> "file", name |-> path]

\* what decoding finds: whether the user file can be read and decoded at the
\* time of the call, and whether the embedded wav of each edge decodes (the
\* bytes are compiled in: the same answer at every call of a build)
EmbeddedDecodes == [BOOLEAN -> BOOLEAN]
DecodeEnv(fileOk, embedded) == [file |-> fileOk, embedded |-> embedded]

\* SOUND_CACHE before set_sound_cache (every lookup misses), and the cache
\* init_audio_cache stores when sounds are off
EmptyCache == [on |-> None, off |-> None, default_on |-> None, default_off |-> None]

\* load_sound_samples 60-78
load_sound_samples(choice, on, env) ==
    CASE choice.kind = "Disabled" -> [ok |-> TRUE, samples |-> None]
      [] choice.kind = "Default" ->
           IF env.embedded[on] THEN [ok |-> TRUE, samples |-> Some(Embedded(on))]
           ELSE [ok |-> FALSE, samples |-> None]
      [] OTHER ->
           IF env.file THEN [ok |-> TRUE, samples |-> Some(Decoded(choice.path))]
           ELSE [ok |-> FALSE, samples |-> None]

\* load_default_samples 80-82: decode_samples(embedded).ok()
load_default_samples(on, env) ==
    IF env.embedded[on] THEN Some(Embedded(on)) ELSE None

\* the cache after init_audio_cache returned early through `?`, with the
\* samples of `on` already loaded
\* variant: the slot loaded so far is stored
cache_on_error_partial(old, loaded) == [old EXCEPT !.on = loaded]

cache_on_error(old, loaded) == old

\* init_audio_cache 113-136: the result and the cache afterwards
init_audio_cache(cfg, old, env) ==
    IF ~cfg.sounds
    THEN [result |-> "Ok", slots |-> EmptyCache]
    ELSE LET on == load_sound_samples(cfg.sound_on, TRUE, env)
             off == load_sound_samples(cfg.sound_off, FALSE, env)
         IN IF ~on.ok
            THEN [result |-> "Err", slots |-> cache_on_error(old, None)]
            ELSE IF ~off.ok
                 THEN [result |-> "Err", slots |-> cache_on_error(old, on.samples)]
                 ELSE [result |-> "Ok",
                       slots |-> [on |-> on.samples,
                                  off |-> off.samples,
                                  default_on |-> load_default_samples(TRUE, env),
                                  default_off |-> load_default_samples(FALSE, env)]]

\* cached_samples 95-102 and cached_default_samples 104-111
cached_samples(slots, on) == IF on THEN slots.on ELSE slots.off

cached_default_samples(slots, on) ==
    IF on THEN slots.default_on ELSE slots.default_off

\* the PlayRequest values send_samples puts on the channel
Requests(samples, volume) ==
    {[samples |-> b, volume |-> volume] : b \in samples}

NoPlay == [queued |-> {}, thread |-> FALSE, decoded |-> FALSE]

\* play_sound_file 168-174: read and decode, send when both succeed
play_sound_file(path, volume, env) ==
    [queued |-> IF env.file THEN Requests(Some(Decoded(path)), volume) ELSE {},
     thread |-> FALSE, decoded |-> TRUE]

\* what a cache hit does in play_transition_sound: send_samples, then return
\* variant: no return after the send, the fallback of the choice runs as well
on_cache_hit_no_return(choice, samples, volume) ==
    [queued |-> Requests(samples, volume),
     thread |-> choice.kind = "Default", decoded |-> choice.kind = "File"]

on_cache_hit(choice, samples, volume) ==
    [queued |-> Requests(samples, volume), thread |-> FALSE, decoded |-> FALSE]

\* variant: config.sounds is not looked at
audio_play_transition_sound_unchecked(cfg, slots, on, env) ==
    LET choice == IF on THEN cfg.sound_on ELSE cfg.sound_off
        samples == cached_samples(slots, on)
    IN CASE choice.kind = "Disabled" -> NoPlay
         [] choice.kind = "Default" ->
              IF samples # None
              THEN on_cache_hit(choice, samples, cfg.sound_volume)
              ELSE [queued |-> {}, thread |-> TRUE, decoded |-> FALSE]
         [] OTHER ->
              IF samples # None
              THEN on_cache_hit(choice, samples, cfg.sound_volume)
              ELSE play_sound_file(choice.path, cfg.sound_volume, env)

\* play_transition_sound 267-309 of audio.rs: the requests it sends, whether
\* it spawns the thread of play_default_sound, whether it decodes the user file
audio_play_transition_sound(cfg, slots, on, env) ==
    LET choice == IF on THEN cfg.sound_on ELSE cfg.sound_off
        samples == cached_samples(slots, on)
    IN IF ~cfg.sounds THEN NoPlay
       ELSE CASE choice.kind = "Disabled" -> NoPlay
              [] choice.kind = "Default" ->
                   IF samples # None
                   THEN on_cache_hit(choice, samples, cfg.sound_volume)
                   ELSE [queued |-> {}, thread |-> TRUE, decoded |-> FALSE]
              [] OTHER ->
                   IF samples # None
                   THEN on_cache_hit(choice, samples, cfg.sound_volume)
                   ELSE play_sound_file(choice.path, cfg.sound_volume, env)

\* try_play_embedded_sound 176-183, the first step of the default-sound thread
try_play_embedded_sound(slots, on, volume) ==
    Requests(cached_default_samples(slots, on), volume)

CacheInit ==
    /\ cache \in [cfg : AudioConfigs, embedded : EmbeddedDecodes, slots : {EmptyCache},
                  threads : {<<>>}, last : {[kind |-> "none"]}]
    /\ chord = Idle
    /\ audio = Idle
    /\ probe = Idle
    /\ forwarder = Idle
    /\ mic = Idle
    /\ cli = Idle
    /\ reload = Idle
    /\ fallback = Idle
    /\ sender = Idle
    /\ persist = Idle
    /\ LoopIdle

\* init_audio_cache called with a configuration, which is the one in force
\* afterwards; last.filled tells whether the call found a slot filled
InitAudioCache ==
    /\ \E new \in AudioConfigs, fileOk \in BOOLEAN :
         LET r == init_audio_cache(new, cache.slots, DecodeEnv(fileOk, cache.embedded))
         IN cache' = [cache EXCEPT !.cfg = new,
                                   !.slots = r.slots,
                                   !.last = [kind |-> "init", result |-> r.result,
                                             filled |-> cache.slots # EmptyCache]]
    /\ UNCHANGED <<loopVars, chord, audio, probe, forwarder, mic, cli, reload, fallback, sender, persist>>

\* play_transition_sound called for an edge under the configuration in force
CachePlay ==
    /\ \E on \in BOOLEAN, fileOk \in BOOLEAN :
         LET r == audio_play_transition_sound(cache.cfg, cache.slots, on,
                                              DecodeEnv(fileOk, cache.embedded))
         IN /\ r.thread => Len(cache.threads) < MaxThreads
            /\ cache' = [cache EXCEPT
                            !.threads = IF r.thread
                                        THEN Append(@, [on |-> on,
                                                        volume |-> cache.cfg.sound_volume])
                                        ELSE @,
                            !.last = [kind |-> "play", on |-> on, queued |-> r.queued,
                                      thread |-> r.thread, decoded |-> r.decoded]]
    /\ UNCHANGED <<loopVars, chord, audio, probe, forwarder, mic, cli, reload, fallback, sender, persist>>

\* one of the spawned default-sound threads runs: the embedded samples are
\* sent, or paplay / canberra play outside the channel
CacheThread ==
    /\ \E k \in DOMAIN cache.threads :
         LET t == cache.threads[k]
         IN cache' = [cache EXCEPT
                         !.threads = Without(@, k),
                         !.last = [kind |-> "thread", on |-> t.on,
                                   queued |-> try_play_embedded_sound(cache.slots, t.on,
                                                                      t.volume)]]
    /\ UNCHANGED <<loopVars, chord, audio, probe, forwarder, mic, cli, reload, fallback, sender, persist>>

CacheNext ==
    \/ InitAudioCache
    \/ CachePlay
    \/ CacheThread

SpecCache == CacheInit /\ [][CacheNext]_vars

\* C24: init_audio_cache with sounds = false leaves all four slots empty,
\* whatever the cache held, and play_transition_sound under that
\* configuration sends no request, spawns no fallback thread and decodes
\* nothing.
C24_SoundsOffClearsAndSilences ==
    ~cache.cfg.sounds
        => /\ cache.slots = EmptyCache
           /\ cache.last.kind = "init" => cache.last.result = "Ok"
           /\ cache.last.kind = "play"
                => /\ cache.last.queued = {}
                   /\ ~cache.last.thread
                   /\ ~cache.last.decoded

\* C24 witness: init_audio_cache ran with sounds off on a filled cache
C24_Witness ==
    /\ ~cache.cfg.sounds
    /\ cache.last.kind = "init"
    /\ cache.last.filled
    /\ cache.slots = EmptyCache

\* the cache init_audio_cache has to store for a configuration
ExpectedSlot(choice, on) ==
    CASE choice.kind = "Disabled" -> None
      [] choice.kind = "Default" -> Some(Embedded(on))
      [] OTHER -> Some(Decoded(choice.path))

\* C29: init_audio_cache is all-or-nothing: a call that returns an error
\* leaves every slot as it was before the call; a call that succeeds leaves
\* all four slots as the new configuration has them, none from the cache
\* before.
C29_CacheRebuildAllOrNothing ==
    [][cache'.last.kind = "init"
         => IF cache'.last.result = "Err"
            THEN cache'.slots = cache.slots
            ELSE IF ~cache'.cfg.sounds
                 THEN cache'.slots = EmptyCache
                 ELSE /\ cache'.slots.on = ExpectedSlot(cache'.cfg.sound_on, TRUE)
                      /\ cache'.slots.off = ExpectedSlot(cache'.cfg.sound_off, FALSE)
                      /\ cache'.slots.default_on \in {None, Some(Embedded(TRUE))}
                      /\ cache'.slots.default_off \in {None, Some(Embedded(FALSE))}]_vars

\* C29 witness: the call for <<Default, File>> failed on the file after the
\* on sound was loaded, and the on slot still holds the buffer of the
\* configuration before
C29_Witness ==
    /\ cache.last.kind = "init"
    /\ cache.last.result = "Err"
    /\ cache.cfg.sounds
    /\ cache.cfg.sound_on = SoundDefault
    /\ cache.cfg.sound_off = SoundFile("a.ogg")
    /\ cache.slots.on = Some(Decoded("a.ogg"))

\* C30: play_transition_sound per edge: a Disabled choice sends nothing and
\* runs no fallback; a filled configured slot gives exactly one request with
\* that buffer and sound_volume and no fallback; the user file is decoded
\* (File) or the default-sound thread spawned (Default) only when the slot is
\* empty; a call sends at most one request, its thread included.
C30_SelectionPerEdge ==
    /\ (cache.last.kind = "play" /\ cache.cfg.sounds)
         => LET choice == IF cache.last.on THEN cache.cfg.sound_on ELSE cache.cfg.sound_off
                slot == IF cache.last.on THEN cache.slots.on ELSE cache.slots.off
            IN /\ choice.kind = "Disabled"
                    => (cache.last.queued = {} /\ ~cache.last.thread /\ ~cache.last.decoded)
               /\ (choice.kind # "Disabled" /\ slot # None)
                    => /\ cache.last.queued =
                            {[samples |-> b, volume |-> cache.cfg.sound_volume] : b \in slot}
                       /\ Cardinality(cache.last.queued) = 1
                       /\ ~cache.last.thread
                       /\ ~cache.last.decoded
               /\ cache.last.decoded => (choice.kind = "File" /\ slot = None)
               /\ cache.last.thread
                    => (choice.kind = "Default" /\ slot = None /\ cache.last.queued = {})
               /\ Cardinality(cache.last.queued) <= 1
    /\ cache.last.kind = "thread" => Cardinality(cache.last.queued) <= 1

\* C30 witness: a File choice whose slot is empty is decoded and sent
C30_Witness ==
    /\ cache.last.kind = "play"
    /\ cache.cfg.sounds
    /\ cache.last.on
    /\ cache.cfg.sound_on.kind = "File"
    /\ cache.slots.on = None
    /\ cache.last.decoded
    /\ Cardinality(cache.last.queued) = 1

(***************************************************************************)
(* The --key options of parse_args (main.rs, and the parse_args of         *)
(* config.rs that starts from the persisted configuration)                 *)
(***************************************************************************)
\* the texts of single keys used on the command lines below
KeyTexts == {"BTN_EXTRA", " key_f9", "KEY_F9", "276", "300", "nokey", ""}

\* trim().to_ascii_uppercase()
Normalized(text) ==
    CASE text = " key_f9" -> "KEY_F9"
      [] text = "nokey" -> "NOKEY"
      [] OTHER -> text

\* parse_key: a numeric text is the code itself (276 is BTN_EXTRA, 300 a code
\* without a name in SUPPORTED_KEYS), a name is looked up in SUPPORTED_KEYS,
\* anything else is an error
parse_key(text) ==
    LET normalized == Normalized(text)
    IN CASE normalized = "276" -> [ok |-> TRUE, key |-> "BTN_EXTRA"]
         [] normalized = "300" -> [ok |-> TRUE, key |-> "CODE_300"]
         [] normalized \in {"BTN_EXTRA", "KEY_F9"} -> [ok |-> TRUE, key |-> normalized]
         [] OTHER -> [ok |-> FALSE, key |-> "none"]

\* the values given to --key: texts of keys with "+" between them
KeyOptionValues ==
    {<<"BTN_EXTRA">>, <<" key_f9">>, <<"276">>, <<"nokey">>,
     <<"BTN_EXTRA", "+", "KEY_F9">>, <<"KEY_F9", "+", "276">>,
     <<>>, <<"KEY_F9", "+">>}

\* variant: empty texts are left out, an empty value has no part at all
RECURSIVE split_plus_skip_empty(_)
split_plus_skip_empty(value) ==
    IF value = <<>> THEN <<>>
    ELSE IF Head(value) = "+" THEN split_plus_skip_empty(Tail(value))
         ELSE <<Head(value)>> \o split_plus_skip_empty(Tail(value))

\* input.split('+'): the texts between the "+", one more than there are "+";
\* an empty value, or nothing before or after a "+", gives the empty text
RECURSIVE split_plus(_)
split_plus(value) ==
    IF value = <<>> THEN <<"">>
    ELSE IF Head(value) = "+" THEN <<"">> \o split_plus(Tail(value))
    ELSE IF Len(value) = 1 THEN value
    ELSE <<Head(value)>> \o split_plus(Tail(Tail(value)))

\* parse_keys: every part parsed, collected into Result<Vec<KeyCode>>
parse_keys(value) ==
    LET parts == split_plus(value)
        parsed == [k \in DOMAIN parts |-> parse_key(parts[k])]
    IN IF \A k \in DOMAIN parsed : parsed[k].ok
       THEN [ok |-> TRUE, keys |-> [k \in DOMAIN parsed |-> parsed[k].key]]
       ELSE [ok |-> FALSE, keys |-> <<>>]

\* the "--key" arm of main.rs 472-480 on the keys so far
main_key_option(keys, parsed) ==
    (IF Len(keys) = 1 /\ keys[1] = "BTN_EXTRA" THEN <<>> ELSE keys) \o parsed

\* the "--key" arm of config.rs 535-545 on the keys so far and key_set
config_key_option(keys, key_set, parsed) ==
    (IF ~key_set THEN <<>> ELSE keys) \o parsed

\* the command lines: sequences of at most MaxKeyOptions --key values
CommandLines ==
    UNION {[1 .. n -> KeyOptionValues] : n \in 0 .. MaxKeyOptions}

\* PersistedConfig.keys
PersistedKeys == {<<>>, <<"KEY_F9">>}

\* config.rs 447-454 and 500-507: the persisted keys, BTN_EXTRA when there
\* are none
config_initial_keys(base) ==
    IF base = <<>> THEN <<"BTN_EXTRA">> ELSE base

CliInit ==
    /\ \E args \in CommandLines, base \in PersistedKeys :
         cli = [args |-> args, base |-> base,
                main |-> [phase |-> "run", i |-> 1, keys |-> <<"BTN_EXTRA">>],
                cfg |-> [phase |-> "run", i |-> 1, keys |-> config_initial_keys(base),
                         key_set |-> FALSE]]
    /\ chord = Idle
    /\ audio = Idle
    /\ probe = Idle
    /\ forwarder = Idle
    /\ mic = Idle
    /\ cache = Idle
    /\ reload = Idle
    /\ fallback = Idle
    /\ sender = Idle
    /\ persist = Idle
    /\ LoopIdle

\* one round of the `while i < args.len()` loop of main.rs parse_args
MainParseStep ==
    /\ cli.main.phase = "run"
    /\ IF cli.main.i > Len(cli.args)
       THEN cli' = [cli EXCEPT !.main.phase = "done"]
       ELSE LET parsed == parse_keys(cli.args[cli.main.i])
            IN IF ~parsed.ok
               THEN cli' = [cli EXCEPT !.main.phase = "error"]
               ELSE cli' = [cli EXCEPT
                               !.main.keys = main_key_option(@, parsed.keys),
                               !.main.i = @ + 1]
    /\ UNCHANGED <<loopVars, chord, audio, probe, forwarder, mic, cache, reload, fallback, sender, persist>>

\* one round of the `while i < args.len()` loop of config.rs parse_args
ConfigParseStep ==
    /\ cli.cfg.phase = "run"
    /\ IF cli.cfg.i > Len(cli.args)
       THEN cli' = [cli EXCEPT !.cfg.phase = "done"]
       ELSE LET parsed == parse_keys(cli.args[cli.cfg.i])
            IN IF ~parsed.ok
               THEN cli' = [cli EXCEPT !.cfg.phase = "error"]
               ELSE cli' = [cli EXCEPT
                               !.cfg.keys = config_key_option(@, cli.cfg.key_set,
                                                              parsed.keys),
                               !.cfg.key_set = TRUE,
                               !.cfg.i = @ + 1]
    /\ UNCHANGED <<loopVars, chord, audio, probe, forwarder, mic, cache, reload, fallback, sender, persist>>

CliNext ==
    \/ MainParseStep
    \/ ConfigParseStep

SpecCli == CliInit /\ [][CliNext]_vars

\* the keys of all the --key options, in order
RECURSIVE AllOptionKeys(_)
AllOptionKeys(args) ==
    IF args = <<>> THEN <<>>
    ELSE parse_keys(Head(args)).keys \o AllOptionKeys(Tail(args))

\* C25: the chord parse_args returns is the concatenation, in order, of the
\* keys of all --key options, in place of the default (main.rs) or persisted
\* (config.rs) chord, which stays when no --key is given.
C25_KeyOptionsConcatenate ==
    /\ cli.main.phase = "done"
         => cli.main.keys = (IF cli.args = <<>> THEN <<"BTN_EXTRA">>
                             ELSE AllOptionKeys(cli.args))
    /\ cli.cfg.phase = "done"
         => cli.cfg.keys = (IF cli.args = <<>> THEN config_initial_keys(cli.base)
                            ELSE AllOptionKeys(cli.args))

\* C35: a configuration returned without error has at least one chord key:
\* an empty persisted list becomes the default key, and no --key options,
\* whatever their values, leave the chord empty
C35_ChordNeverEmpty ==
    /\ config_initial_keys(cli.base) # <<>>
    /\ cli.cfg.phase = "done" => cli.cfg.keys # <<>>
    /\ cli.main.phase = "done" => cli.main.keys # <<>>

\* no keys persisted and no --key given: the chord is the default key
C35_Witness ==
    /\ cli.base = <<>>
    /\ cli.args = <<>>
    /\ cli.cfg.phase = "done"
    /\ cli.cfg.keys = <<"BTN_EXTRA">>

(***************************************************************************)
(* Hot reload (spec 4.5 step 2c): the loop takes a new snapshot from the   *)
(* configuration-change channel, diffs it against the one in force and     *)
(* rebuilds only what the changed fields require.                          *)
(***************************************************************************)
\* the fields of a snapshot that the reload step looks at
Snapshots ==
    [keys : {<<"KEY_A">>, <<"KEY_A", "KEY_B">>},
     device_selector : {NoPath, DevicePath},
     suppress : BOOLEAN,
     sound_volume : {5, 10},
     reverse : BOOLEAN]

\* section 4.1: every chord key is pressed, inverted by reverse
desired_activation(snapshot, prs) == all_pressed(snapshot, prs) # snapshot.reverse

\* variant: any difference between the snapshots rebuilds the session
session_rebuild_needed_any_change(old, new) == old # new

\* "If keys or device selector changed ... fully rebuild the Device Session"
session_rebuild_needed(old, new) ==
    old.keys # new.keys \/ old.device_selector # new.device_selector

\* "Otherwise, if only suppress changed, rebuild suppression state on the
\* existing session without reopening it"
suppression_rebuild_needed(old, new) ==
    ~session_rebuild_needed(old, new) /\ old.suppress # new.suppress

\* recompute the desired activation and apply it when it differs from the
\* activation state; ok tells whether the Action Applier succeeds
reconcile(snapshot, prs, act, ok) ==
    LET want == desired_activation(snapshot, prs)
    IN IF want = act THEN [result |-> "Ok", active |-> act, applied |-> <<>>]
       ELSE IF ok THEN [result |-> "Ok", active |-> want, applied |-> <<want>>]
       ELSE [result |-> "Err", active |-> act, applied |-> <<want>>]

\* step 2c for a snapshot that arrived: audio cache first, then the forced
\* "off" and the full rebuild, or the suppression rebuild, then the final
\* recomputation against the new snapshot; applied lists the directions the
\* Action Applier was called with
apply_snapshot(old, new, prs, act, offOk, applyOk) ==
    IF session_rebuild_needed(old, new)
    THEN IF ~offOk
         THEN [result |-> "Err", pressed |-> prs, active |-> act,
               applied |-> <<FALSE>>, session |-> "kept", suppression |-> "kept"]
         ELSE LET r == reconcile(new, {}, FALSE, applyOk)
              IN [result |-> r.result, pressed |-> {}, active |-> r.active,
                  applied |-> <<FALSE>> \o r.applied,
                  session |-> "rebuilt", suppression |-> "rebuilt"]
    ELSE LET r == reconcile(new, prs, act, applyOk)
         IN [result |-> r.result, pressed |-> prs, active |-> r.active,
             applied |-> r.applied, session |-> "kept",
             suppression |-> IF suppression_rebuild_needed(old, new)
                             THEN "rebuilt" ELSE "kept"]

NoReload == [kind |-> "none", applied |-> <<>>, session |-> "kept", suppression |-> "kept"]

\* step 1: the session is open, the pressed set empty, and the initial
\* desired activation (false XOR reverse) has been applied
ReloadInit ==
    /\ reload \in {[phase |-> "run", snapshot |-> s, pressed |-> {},
                    active |-> s.reverse, last |-> NoReload] : s \in Snapshots}
    /\ chord = Idle
    /\ audio = Idle
    /\ probe = Idle
    /\ forwarder = Idle
    /\ mic = Idle
    /\ cache = Idle
    /\ cli = Idle
    /\ fallback = Idle
    /\ sender = Idle
    /\ persist = Idle
    /\ LoopIdle

\* step 2b for one key event
ReloadKeyEvent ==
    /\ reload.phase = "run"
    /\ \E ev \in KeyEvents, ok \in BOOLEAN :
         LET p == update_pressed_keys(reload.pressed, ev.key, ev.value)
             r == reconcile(reload.snapshot, p, reload.active, ok)
         IN reload' = [reload EXCEPT
                         !.phase = IF r.result = "Err" THEN "exited" ELSE "run",
                         !.pressed = p,
                         !.active = r.active,
                         !.last = [kind |-> "event", applied |-> r.applied,
                                   session |-> "kept", suppression |-> "kept"]]
    /\ UNCHANGED <<loopVars, chord, audio, probe, forwarder, mic, cache, cli, fallback, sender, persist>>

\* step 2c: a snapshot arrived on the configuration-change channel
ReloadSnapshot ==
    /\ reload.phase = "run"
    /\ \E new \in Snapshots, offOk \in BOOLEAN, applyOk \in BOOLEAN :
         LET r == apply_snapshot(reload.snapshot, new, reload.pressed,
                                 reload.active, offOk, applyOk)
         IN reload' = [reload EXCEPT
                         !.phase = IF r.result = "Err" THEN "exited" ELSE "run",
                         !.snapshot = IF r.result = "Err" THEN @ ELSE new,
                         !.pressed = r.pressed,
                         !.active = r.active,
                         !.last = [kind |-> "reload", applied |-> r.applied,
                                   session |-> r.session,
                                   suppression |-> r.suppression]]
    /\ UNCHANGED <<loopVars, chord, audio, probe, forwarder, mic, cache, cli, fallback, sender, persist>>

ReloadNext ==
    \/ ReloadKeyEvent
    \/ ReloadSnapshot

SpecReload == ReloadInit /\ [][ReloadNext]_vars

\* the two snapshots differ in sound_volume and in no other field
OnlySoundVolumeDiffers(old, new) ==
    /\ old.sound_volume # new.sound_volume
    /\ [old EXCEPT !.sound_volume = new.sound_volume] = new

Candidates(on) ==
    IF on
    THEN <<"audio-volume-change.oga", "audio-volume-change.wav", "audio-volume-change.ogg">>
    ELSE <<"audio-volume-muted.oga", "audio-volume-muted.wav", "audio-volume-muted.ogg">>

NumCandidates == 3

\* DEFAULT_SOUND_ON_EVENT / DEFAULT_SOUND_OFF_EVENT
EventOf(on) == IF on THEN "DEFAULT_SOUND_ON_EVENT" ELSE "DEFAULT_SOUND_OFF_EVENT"

\* what the thread finds on the machine: the builtin sound in the cache or
\* not, the two players installed or not, each candidate file present or not,
\* and how a player invocation ends ("ok": exit status 0, "nonzero": another
\* exit status, "nolaunch": Command::status() returns Err)
FallbackEnvs ==
    [cached : BOOLEAN,
     paplay : BOOLEAN,
     exists : [1..NumCandidates -> BOOLEAN],
     status : [1..NumCandidates -> Outcomes],
     canberra : BOOLEAN,
     event_status : Outcomes]

\* the SoundCache the thread reads: only the default slot of its direction matters
SlotsOf(env, on) ==
    IF ~env.cached THEN EmptyCache
    ELSE IF on THEN [EmptyCache EXCEPT !.default_on = Some(Embedded(TRUE))]
    ELSE [EmptyCache EXCEPT !.default_off = Some(Embedded(FALSE))]

\* try_paplay 212-219: the loop over the candidates from the i-th on; a file
\* that exists is handed to paplay, and when the child could be run its exit
\* status is returned at once
RECURSIVE paplay_candidates(_, _, _)
paplay_candidates(env, on, i) ==
    IF i > NumCandidates THEN [ok |-> FALSE, invoked |-> <<>>]
    ELSE IF env.exists[i] /\ env.status[i] # "nolaunch"
         THEN [ok |-> env.status[i] = "ok", invoked |-> <<Candidates(on)[i]>>]
    ELSE LET rest == paplay_candidates(env, on, i + 1)
         IN [ok |-> rest.ok,
             invoked |-> (IF env.exists[i] THEN <<Candidates(on)[i]>> ELSE <<>>)
                         \o rest.invoked]

\* try_paplay 196-221
try_paplay(env, on) ==
    IF ~env.paplay THEN [ok |-> FALSE, invoked |-> <<>>]
    ELSE paplay_candidates(env, on, 1)

\* try_canberra 223-231
try_canberra(env, event) ==
    IF ~env.canberra THEN [ok |-> FALSE, invoked |-> <<>>]
    ELSE [ok |-> env.event_status = "ok", invoked |-> <<event>>]

\* the closure of play_default_sound 234-248: sent is what went to the audio
\* channel, invoked the player invocations in order, played the step that
\* succeeded ("none" when all failed)
play_default_sound(env, on, volume) ==
    LET embedded == try_play_embedded_sound(SlotsOf(env, on), on, volume)
        files == try_paplay(env, on)
        event == try_canberra(env, EventOf(on))
    IN IF embedded # {}
       THEN [sent |-> embedded, invoked |-> <<>>, played |-> "embedded"]
       ELSE IF files.ok
       THEN [sent |-> {}, invoked |-> files.invoked,
             played |-> files.invoked[Len(files.invoked)]]
       ELSE [sent |-> {}, invoked |-> files.invoked \o event.invoked,
             played |-> IF event.ok THEN EventOf(on) ELSE "none"]

FallbackInit ==
    /\ fallback \in [phase : {"spawned"}, env : FallbackEnvs, on : BOOLEAN,
                     sent : {{}}, invoked : {<<>>}, played : {"none"}]
    /\ chord = Idle
    /\ audio = Idle
    /\ probe = Idle
    /\ forwarder = Idle
    /\ mic = Idle
    /\ cache = Idle
    /\ cli = Idle
    /\ reload = Idle
    /\ sender = Idle
    /\ persist = Idle
    /\ LoopIdle

\* the detached thread runs to its end
FallbackThread ==
    /\ fallback.phase = "spawned"
    /\ LET r == play_default_sound(fallback.env, fallback.on, 10)
       IN fallback' = [fallback EXCEPT !.phase = "done", !.sent = r.sent,
                                       !.invoked = r.invoked, !.played = r.played]
    /\ UNCHANGED <<loopVars, chord, audio, probe, forwarder, mic, cache, cli, reload, sender, persist>>

FallbackNext == \/ FallbackThread

SpecFallback == FallbackInit /\ [][FallbackNext]_vars

\* the steps of the chain after the builtin sound, in order
ChainSteps(on) == Candidates(on) \o <<EventOf(on)>>

\* whether the k-th step of ChainSteps can be attempted, and whether it succeeds
StepAvailable(env, k) ==
    IF k <= NumCandidates THEN env.paplay /\ env.exists[k] ELSE env.canberra

StepSucceeds(env, k) ==
    /\ StepAvailable(env, k)
    /\ (IF k <= NumCandidates THEN env.status[k] ELSE env.event_status) = "ok"

\* C31: the chain is builtin sound, then each sound file in order through
\* paplay, then the named event through canberra-gtk-play; it stops at the
\* first step that succeeds, and every step that fails, a file whose player
\* fails included, is followed by the next step
C31_FallbackChainInOrder ==
    fallback.phase = "done" =>
        LET env == fallback.env
            steps == ChainSteps(fallback.on)
            first == {k \in DOMAIN steps : StepSucceeds(env, k)
                                           /\ \A j \in 1..(k - 1) : ~StepSucceeds(env, j)}
        IN IF env.cached
           THEN fallback.played = "embedded" /\ fallback.invoked = <<>> /\ fallback.sent # {}
           ELSE /\ fallback.sent = {}
                /\ \A k \in first : fallback.played = steps[k]
                /\ first = {} => fallback.played = "none"

(***************************************************************************)
(* Lazy start of the audio worker (audio.rs get_audio_sender) when the     *)
(* reconciliation thread and a detached default-sound thread call          *)
(* send_samples at the same time.  A channel is named after the thread     *)
(* that created it.                                                        *)
(***************************************************************************)
\* the reconciliation thread (play_transition_sound, play_sound_file) and a
\* thread spawned by play_default_sound
Callers == {"loop", "thread"}

\* variant: a plain assignment, the later caller replaces the stored sender
once_set_overwrite(cell, tx) == Some(tx)

\* OnceLock::set: stores the value when the cell is empty, otherwise leaves
\* the cell as it is (the Err carrying the value back is dropped by `let _ =`)
once_set(cell, tx) == IF cell = None THEN Some(tx) ELSE cell

\* where the Sender of a channel is once every set is over: in the static
\* cell, or dropped
TxOf(cell, ch, old) ==
    IF old = "none" THEN "none"
    ELSE IF cell = Some(ch) THEN "static" ELSE "dropped"

SenderInit ==
    /\ sender = [cell |-> None,
                 pc |-> [c \in Callers |-> "check"],
                 calls |-> [c \in Callers |-> 0],
                 tx |-> [c \in Callers |-> "none"],
                 worker |-> [c \in Callers |-> "none"],
                 queue |-> [c \in Callers |-> 0],
                 consumed |-> [c \in Callers |-> 0],
                 sent |-> {}]
    /\ chord = Idle
    /\ audio = Idle
    /\ probe = Idle
    /\ forwarder = Idle
    /\ mic = Idle
    /\ cache = Idle
    /\ cli = Idle
    /\ reload = Idle
    /\ fallback = Idle
    /\ persist = Idle
    /\ LoopIdle

\* get_audio_sender 26: AUDIO_SENDER.get().is_none()
SenderCheck(c) ==
    /\ sender.pc[c] = "check"
    /\ sender' = [sender EXCEPT !.pc[c] = IF sender.cell = None THEN "create" ELSE "get"]
    /\ UNCHANGED <<loopVars, chord, audio, probe, forwarder, mic, cache, cli, reload, fallback, persist>>

\* get_audio_sender 27-28: mpsc::channel(), then AUDIO_SENDER.set(tx)
SenderSet(c) ==
    /\ sender.pc[c] = "create"
    /\ LET cell == once_set(sender.cell, c)
           made == [sender.tx EXCEPT ![c] = "local"]
       IN sender' = [sender EXCEPT
                       !.cell = cell,
                       !.tx = [ch \in Callers |-> TxOf(cell, ch, made[ch])],
                       !.pc[c] = "spawn"]
    /\ UNCHANGED <<loopVars, chord, audio, probe, forwarder, mic, cache, cli, reload, fallback, persist>>

\* get_audio_sender 29: the worker thread is spawned with this caller's rx
SenderSpawn(c) ==
    /\ sender.pc[c] = "spawn"
    /\ sender' = [sender EXCEPT !.worker[c] = "running", !.pc[c] = "get"]
    /\ UNCHANGED <<loopVars, chord, audio, probe, forwarder, mic, cache, cli, reload, fallback, persist>>

\* get_audio_sender 42 and send_samples 139-142: AUDIO_SENDER.get(), then
\* sender.send(request); the request is queued when the Receiver is alive
SenderSend(c) ==
    /\ sender.pc[c] = "get"
    /\ LET n == sender.calls[c] + 1
           next == IF n < MaxSends THEN "check" ELSE "done"
       IN IF sender.cell = None
          THEN sender' = [sender EXCEPT !.calls[c] = n, !.pc[c] = next]
          ELSE LET ch == CHOOSE x \in Callers : sender.cell = Some(x)
                   live == sender.worker[ch] # "exited"
               IN sender' = [sender EXCEPT
                               !.calls[c] = n,
                               !.pc[c] = next,
                               !.queue[ch] = IF live THEN @ + 1 ELSE @,
                               !.sent = @ \cup {[from |-> c, on |-> ch, live |-> live]}]
    /\ UNCHANGED <<loopVars, chord, audio, probe, forwarder, mic, cache, cli, reload, fallback, persist>>

\* get_audio_sender 30-39: `for request in rx` yields a request, which is played
SenderWorkerTake(ch) ==
    /\ sender.worker[ch] = "running"
    /\ sender.queue[ch] > 0
    /\ sender' = [sender EXCEPT !.queue[ch] = @ - 1, !.consumed[ch] = @ + 1]
    /\ UNCHANGED <<loopVars, chord, audio, probe, forwarder, mic, cache, cli, reload, fallback, persist>>

\* get_audio_sender 30: the channel is empty and its Sender was dropped, the
\* iteration ends and the worker returns, dropping rx
SenderWorkerExit(ch) ==
    /\ sender.worker[ch] = "running"
    /\ sender.queue[ch] = 0
    /\ sender.tx[ch] = "dropped"
    /\ sender' = [sender EXCEPT !.worker[ch] = "exited"]
    /\ UNCHANGED <<loopVars, chord, audio, probe, forwarder, mic, cache, cli, reload, fallback, persist>>

SenderNext ==
    \/ \E c \in Callers : SenderCheck(c)
    \/ \E c \in Callers : SenderSet(c)
    \/ \E c \in Callers : SenderSpawn(c)
    \/ \E c \in Callers : SenderSend(c)
    \/ \E ch \in Callers : SenderWorkerTake(ch)
    \/ \E ch \in Callers : SenderWorkerExit(ch)

SpecSender == SenderInit /\ [][SenderNext]_vars

\* C32: under concurrent first use at most one worker ever consumes a
\* request, all requests are sent on one channel, and a request is never
\* sent on a channel without a consumer: the Receiver is alive at the send,
\* and a queued request has a worker running on its channel or one that the
\* creator of the channel is about to spawn
C32_LazyStartSafe ==
    /\ Cardinality({ch \in Callers : sender.consumed[ch] > 0}) <= 1
    /\ \A r1, r2 \in sender.sent : r1.on = r2.on
    /\ \A r \in sender.sent : r.live /\ sender.cell = Some(r.on)
    /\ \A c \in Callers : sender.pc[c] = "done" => sender.calls[c] = MaxSends
    /\ \A ch \in Callers :
         sender.queue[ch] > 0 =>
            \/ sender.worker[ch] = "running"
            \/ sender.worker[ch] = "none" /\ sender.pc[ch] = "spawn"

\* both threads found the cell empty and each created a channel and spawned
\* a worker; the worker of the losing channel has ended without a request,
\* the other one has consumed every request of both threads
C32_Witness ==
    /\ \A c \in Callers : sender.pc[c] = "done"
    /\ \E win, lose \in Callers :
         /\ sender.worker[win] = "running"
         /\ sender.worker[lose] = "exited"
         /\ sender.consumed[win] = 2 * MaxSends
         /\ sender.consumed[lose] = 0
    /\ {r.from : r \in sender.sent} = Callers

(***************************************************************************)
(* Persisting a configuration and reading it back (config.rs               *)
(* persisted_from_config, config_from_persisted).                          *)
(***************************************************************************)
\* the entries of SUPPORTED_KEYS used here, in table order
SUPPORTED_KEYS ==
    <<[name |-> "BTN_EXTRA", key |-> "BTN_EXTRA"],
      [name |-> "KEY_F9", key |-> "KEY_F9"]>>

\* format!("{}", key.code())
CodeText(key) ==
    CASE key = "BTN_EXTRA" -> "276"
      [] key = "KEY_F9" -> "67"
      [] OTHER -> "300"

\* key codes a chord can hold: two with a name in the table, one without
ChordKeyCodes == {"BTN_EXTRA", "KEY_F9", "CODE_300"}

\* key_label 409-416: the first name in the table, else the code in decimal
key_label(key) ==
    LET hits == {i \in DOMAIN SUPPORTED_KEYS : SUPPORTED_KEYS[i].key = key}
    IN IF hits = {} THEN CodeText(key)
       ELSE SUPPORTED_KEYS[CHOOSE i \in hits : \A j \in hits : i <= j].name

\* paths as the program holds them: env::args() and the persisted file give
\* Strings, so every PathBuf of a Config is valid UTF-8
SoundFilePath == "a.ogg"

\* a path that is not valid UTF-8, and what Path::display() makes of it
NonUtf8Path == "a\\xff.ogg"
display(path) == IF path = NonUtf8Path THEN "a?.ogg" ELSE path

\* mode_label 221-226, parse_mode 228-234
mode_label(mode) == IF mode = "Volume" THEN "volume" ELSE "mute"

parse_mode(value) ==
    CASE value = "volume" -> [ok |-> TRUE, mode |-> "Volume"]
      [] value = "mute" -> [ok |-> TRUE, mode |-> "Mute"]
      [] OTHER -> [ok |-> FALSE, mode |-> "none"]

\* startup_state_label 236-241, parse_startup_state 243-249
startup_state_label(state) == IF state = "Muted" THEN "muted" ELSE "unmuted"

parse_startup_state(value) ==
    CASE value = "muted" -> [ok |-> TRUE, state |-> "Muted"]
      [] value = "unmuted" -> [ok |-> TRUE, state |-> "Unmuted"]
      [] OTHER -> [ok |-> FALSE, state |-> "none"]

\* SoundSettingValue
SettingBool(b) == [kind |-> "Bool", bool |-> b, string |-> ""]
SettingString(text) == [kind |-> "String", bool |-> FALSE, string |-> text]

\* variant: a disabled sound is left out of the persisted configuration
sound_setting_value_omits_disabled(setting) ==
    IF setting.kind = "File" THEN Some(SettingString(display(setting.path))) ELSE None

\* sound_setting_value 304-312
sound_setting_value(setting) ==
    CASE setting.kind = "Default" -> None
      [] setting.kind = "Disabled" -> Some(SettingBool(FALSE))
      [] OTHER -> Some(SettingString(display(setting.path)))

\* parse_sound_setting 331-338
parse_sound_setting(value) ==
    IF value = None THEN SoundDefault
    ELSE LET v == CHOOSE x \in value : TRUE
         IN CASE v.kind = "Bool" /\ ~v.bool -> SoundDisabled
              [] v.kind = "Bool" /\ v.bool -> SoundDefault
              [] OTHER -> SoundFile(v.string)

\* the Config values the program can hold
PersistConfigs ==
    [keys : {<<"BTN_EXTRA">>, <<"KEY_F9", "CODE_300">>, <<"CODE_300", "BTN_EXTRA">>},
     device_path : {None, Some(DevicePath)},
     mode : {"Volume", "Mute"},
     on_level : {10},
     off_level : {0},
     sounds : BOOLEAN,
     sound_on : {SoundDefault, SoundDisabled, SoundFile(SoundFilePath)},
     sound_off : {SoundDefault, SoundDisabled, SoundFile(SoundFilePath)},
     sound_volume : {5, 10},
     list_keys : {FALSE},
     list_devices : {FALSE},
     print_config : {FALSE},
     dry_run : BOOLEAN,
     startup_state : {"Muted", "Unmuted"},
     reverse : BOOLEAN,
     suppress : BOOLEAN]

\* persisted_from_config 251-269
persisted_from_config(c) ==
    [keys |-> [i \in DOMAIN c.keys |-> key_label(c.keys[i])],
     device_path |-> {display(p) : p \in c.device_path},
     mode |-> mode_label(c.mode),
     on_level |-> c.on_level,
     off_level |-> c.off_level,
     sounds |-> c.sounds,
     sound_on |-> sound_setting_value(c.sound_on),
     sound_off |-> sound_setting_value(c.sound_off),
     sound_volume |-> c.sound_volume,
     startup_state |-> startup_state_label(c.startup_state),
     reverse |-> c.reverse,
     suppress |-> c.suppress]

NoConfig == [ok |-> FALSE, config |-> [keys |-> <<>>]]

\* config_from_persisted 446-497; files is the set of paths that exist
config_from_persisted(base, files) ==
    LET parsed == [i \in DOMAIN base.keys |-> parse_key(base.keys[i])]
        keys == IF base.keys = <<>> THEN <<"BTN_EXTRA">>
                ELSE [i \in DOMAIN parsed |-> parsed[i].key]
        mode == parse_mode(base.mode)
        sound_on == parse_sound_setting(base.sound_on)
        sound_off == parse_sound_setting(base.sound_off)
        startup_state == parse_startup_state(base.startup_state)
    IN IF \/ \E i \in DOMAIN parsed : ~parsed[i].ok
          \/ ~mode.ok
          \/ ~startup_state.ok
          \/ sound_on.kind = "File" /\ sound_on.path \notin files
          \/ sound_off.kind = "File" /\ sound_off.path \notin files
       THEN NoConfig
       ELSE [ok |-> TRUE,
             config |-> [keys |-> keys,
                         device_path |-> base.device_path,
                         mode |-> mode.mode,
                         on_level |-> base.on_level,
                         off_level |-> base.off_level,
                         sounds |-> base.sounds,
                         sound_on |-> sound_on,
                         sound_off |-> sound_off,
                         sound_volume |-> base.sound_volume,
                         list_keys |-> FALSE,
                         list_devices |-> FALSE,
                         print_config |-> FALSE,
                         dry_run |-> FALSE,
                         startup_state |-> startup_state.state,
                         reverse |-> base.reverse,
                         suppress |-> base.suppress]]

PersistInit ==
    /\ persist \in [phase : {"config"}, c : PersistConfigs,
                    files : {{}, {SoundFilePath}},
                    persisted : {None}, loaded : {NoConfig}]
    /\ chord = Idle
    /\ audio = Idle
    /\ probe = Idle
    /\ forwarder = Idle
    /\ mic = Idle
    /\ cache = Idle
    /\ cli = Idle
    /\ reload = Idle
    /\ fallback = Idle
    /\ sender = Idle
    /\ LoopIdle

\* persisted_from_config(&config)
PersistConfig ==
    /\ persist.phase = "config"
    /\ persist' = [persist EXCEPT !.phase = "persisted",
                                  !.persisted = Some(persisted_from_config(persist.c))]
    /\ UNCHANGED <<loopVars, chord, audio, probe, forwarder, mic, cache, cli, reload, fallback, sender>>

\* config_from_persisted(base) on what was persisted
LoadConfig ==
    /\ persist.phase = "persisted"
    /\ \E base \in persist.persisted :
         persist' = [persist EXCEPT !.phase = "loaded",
                                    !.loaded = config_from_persisted(base, persist.files)]
    /\ UNCHANGED <<loopVars, chord, audio, probe, forwarder, mic, cache, cli, reload, fallback, sender>>

PersistNext ==
    \/ PersistConfig
    \/ LoadConfig

SpecPersist == PersistInit /\ [][PersistNext]_vars

\* the sound files a configuration names exist
SoundFilesExist(c, files) ==
    /\ c.sound_on.kind = "File" => c.sound_on.path \in files
    /\ c.sound_off.kind = "File" => c.sound_off.path \in files

\* the fields a round trip has to keep
RoundTripFields ==
    {"keys", "device_path", "mode", "on_level", "off_level", "sounds", "sound_on",
     "sound_off", "sound_volume", "startup_state", "reverse", "suppress"}

\* C36: for a configuration whose sound files exist, reading back what was
\* persisted succeeds and gives the same keys in order, device path, mode,
\* levels, sounds flag, sound choices, sound volume, startup state, reverse
\* and suppress; parse_key undoes key_label and parse_sound_setting undoes
\* sound_setting_value
C36_PersistRoundTrip ==
    /\ \A k \in ChordKeyCodes : parse_key(key_label(k)) = [ok |-> TRUE, key |-> k]
    /\ \A choice \in {SoundDefault, SoundDisabled, SoundFile(SoundFilePath)} :
         parse_sound_setting(sound_setting_value(choice)) = choice
    /\ (persist.phase = "loaded" /\ SoundFilesExist(persist.c, persist.files)) =>
          /\ persist.loaded.ok
          /\ \A f \in RoundTripFields : persist.loaded.config[f] = persist.c[f]

\* a chord with a named key and a code without a name, an explicit device, a
\* sound file and a disabled sound went through the round trip
C36_Witness ==
    /\ persist.phase = "loaded"
    /\ persist.loaded.ok
    /\ persist.c.keys = <<"KEY_F9", "CODE_300">>
    /\ persist.c.device_path = Some(DevicePath)
    /\ persist.c.sound_on = SoundFile(SoundFilePath)
    /\ persist.c.sound_off = SoundDisabled
    /\ persist.c.mode = "Mute"
    /\ persist.c.dry_run

====
